---- MODULE Spec2Model ----
(***************************************************************************)
(* EudrGisAuditor: the per-feature partitioning pass                       *)
(* (partition_and_process_dataset, validate_and_fix_geometry,              *)
(* get_area_in_hectares) and the candidate-to-point conversion             *)
(* (batch_convert_candidates_to_points) of                                 *)
(* src/app/gis_processing/transformations.py, over the GeoJSON bucket      *)
(* stores and the detailed report they share.                              *)
(*                                                                         *)
(* Geometry is an opaque library value (OGR/GEOS): a geometry is a record  *)
(* of the answers the library gives to the calls the code makes on it.     *)
(* Areas are in hundredths of a hectare.  Strings that the code takes      *)
(* apart (identifiers, stems) are sequences of characters.                 *)
(***************************************************************************)
EXTENDS Integers, Sequences, FiniteSets, TLC

\* ------------------------------------------------------------------ bounds

\* features read from one dataset by the partitioner
MaxFeatures == 3

\* ------------------------------------------------------- program constants

\* validation.MIN_AREA_HA_FOR_POLYGON = 4.0 ha, in hundredths of a hectare
MIN_AREA_HA_FOR_POLYGON == 400

\* ogr.wkbPoint, wkbLineString, wkbPolygon, wkbMultiLineString, wkbMultiPolygon
wkbPoint == 1
wkbLineString == 2
wkbPolygon == 3
wkbMultiLineString == 5
wkbMultiPolygon == 6

\* geom.GetGeometryType() & 0x000000ff
BaseType(code) == code % 256

\* ------------------------------------------------------------- identifiers

StemA == <<"a">>
StemB == <<"b">>
Digits == <<"0", "1", "2", "3", "4", "5", "6", "7", "8", "9">>

\* str(i) for a one-digit index
Str(i) == <<Digits[i + 1]>>

\* inject_traceability_id: f"{dataset_path.stem}_{i}"
InjectedId(stem, i) == stem \o <<"_">> \o Str(i)

\* explode_multipart_features: f"{original_id}-p{i}"
ExplodedId(original_id, i) == original_id \o <<"-", "p">> \o Str(i)

\* the identifier the partitioner reads from feature i of a dataset
FeatureId(stem, i, exploded) ==
    IF exploded THEN ExplodedId(InjectedId(stem, i), 0) ELSE InjectedId(stem, i)

\* ---------------------------------------------------------------- geometry

\* No geometry on the feature (GetGeometryRef() is None)
NoGeom ==
    [present |-> FALSE, empty |-> FALSE, gtype |-> 0, valid |-> FALSE,
     buf |-> "none", rings |-> 0, verts |-> TRUE, centroid |-> "none",
     transform |-> FALSE, area |-> 0, json |-> "empty", ver |-> "input",
     fixed_rings |-> 0, fixed_verts |-> TRUE, lon |-> 0, lat |-> 0,
     setutm |-> "ok", projected |-> FALSE]

\* A geometry read from the input layer.
\*   valid     geom.IsValid()
\*   buf       what geom.Buffer(0) gives: "none", "empty", "invalid", "valid"
\*   rings     geom.GetGeometryCount()
\*   verts     every vertex inside [-180,180] x [-90,90]
\*   centroid  geom.Centroid(): "none", "out" (outside the bounds), "ok"
\*   transform the UTM transform of the clone succeeds
\*   area      GetArea() of the transformed clone / 10000, in 1/100 ha
\*   json      what the GeoJSON form of the geometry gives when it is parsed
\*             back and its centroid taken: "empty", "nocentroid", "ok"
\*   ver       which geometry this is: "input", "repaired", "simplified",
\*             "centroid"
\*   fixed_rings, fixed_verts
\*             GetGeometryCount() and the vertex bounds of what Buffer(0)
\*             gives (here: those of the geometry itself)
\*   lon, lat  GetX(), GetY() of the centroid, in degrees (here: a point
\*             outside the bounds for centroid "out", (0, 0) otherwise)
\*   setutm    what osr does with SetUTM(utm_zone, ...) for this geometry:
\*             "ok", "ignored" (the error return is dropped and the target
\*             stays geographic) or "raises"
\*   projected Transform() was applied to this object
Geom(gtype, valid, buf, rings, verts, centroid, transform, area, json) ==
    [present |-> TRUE, empty |-> FALSE, gtype |-> gtype, valid |-> valid,
     buf |-> buf, rings |-> rings, verts |-> verts, centroid |-> centroid,
     transform |-> transform, area |-> area, json |-> json, ver |-> "input",
     fixed_rings |-> rings, fixed_verts |-> verts,
     lon |-> IF centroid = "out" THEN 181 ELSE 0, lat |-> 0,
     setutm |-> "ok", projected |-> FALSE]

EmptyGeom == [Geom(wkbPolygon, TRUE, "empty", 0, TRUE, "none", FALSE, 0, "empty")
                 EXCEPT !.empty = TRUE]

\* geom.Buffer(0): the repaired geometry (a new object)
Buffer0(geom) ==
    IF geom.buf = "none" THEN NoGeom
    ELSE [geom EXCEPT !.ver = "repaired",
                      !.empty = (geom.buf = "empty"),
                      !.valid = (geom.buf = "valid"),
                      !.rings = geom.fixed_rings,
                      !.verts = geom.fixed_verts]

\* geom.SimplifyPreserveTopology(SIMPLIFY_TOLERANCE): a new object
SimplifyPreserveTopology(geom) == [geom EXCEPT !.ver = "simplified"]

\* `not geom or geom.IsEmpty()`
MissingOrEmpty(geom) == ~geom.present \/ geom.empty

\* validation.validate_geometry_vertices
ValidateGeometryVertices(geom) ==
    IF MissingOrEmpty(geom) THEN [ok |-> TRUE, reason |-> ""]
    ELSE IF ~geom.verts THEN [ok |-> FALSE, reason |-> "Invalid coordinate range"]
    ELSE [ok |-> TRUE, reason |-> ""]

Verdict(is_valid, reason, action_taken, local_geom) ==
    [is_valid |-> is_valid, reason |-> reason, action_taken |-> action_taken,
     local_geom |-> local_geom]

\* ValidateAndFixGeometry that tries the repair before it looks whether
\* there is a geometry
ValidateAndFixGeometryRepairFirst(geom, autofix, simplify) ==
    IF autofix /\ ~geom.valid
    THEN LET fixed_geom == Buffer0(geom) IN
         IF fixed_geom.present /\ ~fixed_geom.empty /\ fixed_geom.valid
         THEN Verdict(TRUE, "Valid", "Auto-fixed", fixed_geom)
         ELSE Verdict(FALSE, "Invalid geometry (unfixable)", "None", geom)
    ELSE IF MissingOrEmpty(geom)
    THEN Verdict(FALSE, "Missing or empty geometry", "None", geom)
    ELSE Verdict(TRUE, "Valid", "None", geom)

\* ValidateAndFixGeometry that repairs whether or not autofix is set
ValidateAndFixGeometryAlwaysRepairs(geom, autofix, simplify) ==
    IF MissingOrEmpty(geom)
    THEN Verdict(FALSE, "Missing or empty geometry", "None", geom)
    ELSE IF BaseType(geom.gtype) \in {wkbLineString, wkbMultiLineString}
    THEN Verdict(FALSE, "Invalid geometry type (LineString)", "None", geom)
    ELSE IF ~geom.valid
    THEN LET fixed_geom == Buffer0(geom) IN
         IF fixed_geom.present /\ ~fixed_geom.empty /\ fixed_geom.valid
         THEN Verdict(TRUE, "Valid", "Auto-fixed", fixed_geom)
         ELSE Verdict(FALSE, "Invalid geometry (unfixable)", "None", geom)
    ELSE IF BaseType(geom.gtype) = wkbPolygon /\ geom.rings > 1
    THEN Verdict(FALSE, "Polygon with holes not supported", "None", geom)
    ELSE IF ~ValidateGeometryVertices(geom).ok
    THEN Verdict(FALSE, ValidateGeometryVertices(geom).reason, "None", geom)
    ELSE IF simplify /\ BaseType(geom.gtype) = wkbPolygon
    THEN Verdict(TRUE, "Valid", "Simplified", SimplifyPreserveTopology(geom))
    ELSE Verdict(TRUE, "Valid", "None", geom)

\* transformations.validate_and_fix_geometry.  local_geom is the value of the
\* function's own name `geom` when it returns: the function returns the
\* triple (is_valid, reason, action_taken) only, so its caller never sees
\* the rebinding.
ValidateAndFixGeometry(geom, autofix, simplify) ==
    IF MissingOrEmpty(geom)
    THEN Verdict(FALSE, "Missing or empty geometry", "None", geom)
    ELSE IF BaseType(geom.gtype) \in {wkbLineString, wkbMultiLineString}
    THEN Verdict(FALSE, "Invalid geometry type (LineString)", "None", geom)
    ELSE IF ~geom.valid
    THEN IF autofix
         THEN LET fixed_geom == Buffer0(geom) IN
              IF fixed_geom.present /\ ~fixed_geom.empty /\ fixed_geom.valid
              THEN Verdict(TRUE, "Valid", "Auto-fixed", fixed_geom)
              ELSE Verdict(FALSE, "Invalid geometry (unfixable)", "None", geom)
         ELSE Verdict(FALSE, "Invalid geometry", "None", geom)
    ELSE IF BaseType(geom.gtype) = wkbPolygon /\ geom.rings > 1
    THEN Verdict(FALSE, "Polygon with holes not supported", "None", geom)
    ELSE IF ~ValidateGeometryVertices(geom).ok
    THEN Verdict(FALSE, ValidateGeometryVertices(geom).reason, "None", geom)
    ELSE IF simplify /\ BaseType(geom.gtype) = wkbPolygon
    THEN Verdict(TRUE, "Valid", "Simplified", SimplifyPreserveTopology(geom))
    ELSE Verdict(TRUE, "Valid", "None", geom)

\* line 24: int((lon + 180) / 6) + 1, for a longitude in whole degrees
\* (lon + 180 is not negative where the line is reached)
UtmZone(lon) == ((lon + 180) \div 6) + 1

\* geom_clone.Transform(transform): projects the object it is called on
Transform(geom) == [geom EXCEPT !.projected = TRUE]

\* what a call of get_area_in_hectares leaves: ok = FALSE is the None
\* result, raised an exception that leaves the function; utm_zone and north
\* are the arguments of SetUTM (zone 0: the line was not reached);
\* geom_after is the caller's geometry after the call
AreaResult(ok, ha, raised, utm_zone, north, geom_after) ==
    [ok |-> ok, ha |-> ha, raised |-> raised, utm_zone |-> utm_zone,
     north |-> north, geom_after |-> geom_after]

\* transformations.get_area_in_hectares.  The centroid test and the
\* arguments of SetUTM are outside the try of lines 35-41; the transform is
\* built and applied to a clone inside it.
GetAreaInHectares(geom) ==
    IF MissingOrEmpty(geom) THEN AreaResult(TRUE, 0, FALSE, 0, FALSE, geom)
    ELSE IF geom.centroid = "none" THEN AreaResult(FALSE, 0, FALSE, 0, FALSE, geom)
    ELSE IF ~(-180 <= geom.lon /\ geom.lon <= 180 /\ -90 <= geom.lat /\ geom.lat <= 90)
    THEN AreaResult(FALSE, 0, FALSE, 0, FALSE, geom)
    ELSE LET utm_zone == UtmZone(geom.lon)
             north == geom.lat >= 0
         IN  IF geom.setutm = "raises"
             THEN AreaResult(FALSE, 0, TRUE, utm_zone, north, geom)
             ELSE IF ~geom.transform
             THEN AreaResult(FALSE, 0, FALSE, utm_zone, north, geom)
             ELSE LET geom_clone == Transform(geom) IN
                  AreaResult(TRUE, IF geom.setutm = "ignored" THEN 0 ELSE geom.area,
                             FALSE, utm_zone, north, geom)

\* ---------------------------------------------------------- input features

\* A feature of the input layer: its geometry, its Area attribute (-1: the
\* feature has no Area attribute) and whether it is a part of an exploded
\* multi-polygon (its identifier then ends in -p0).
Feature(geom, area_attr, exploded) ==
    [geom |-> geom, Area |-> area_attr, exploded |-> exploded]

GoodPolygon(area, json) ==
    Geom(wkbPolygon, TRUE, "valid", 1, TRUE, "ok", TRUE, area, json)

\* One feature per path through the classifier, the area calculation and the
\* bucket decision.
FeatureSamples ==
    { Feature(NoGeom, -1, FALSE),
      Feature(EmptyGeom, -1, FALSE),
      Feature(Geom(wkbLineString, TRUE, "valid", 0, TRUE, "ok", TRUE, 0, "ok"), -1, FALSE),
      Feature(Geom(wkbPolygon, FALSE, "valid", 1, TRUE, "ok", TRUE, 150, "ok"), 150, FALSE),
      Feature(Geom(wkbPolygon, FALSE, "empty", 1, TRUE, "ok", TRUE, 150, "ok"), -1, FALSE),
      Feature(Geom(wkbPolygon, TRUE, "valid", 2, TRUE, "ok", TRUE, 900, "ok"), -1, FALSE),
      Feature(Geom(wkbPolygon, TRUE, "valid", 1, FALSE, "ok", TRUE, 900, "ok"), -1, FALSE),
      Feature(Geom(wkbPolygon, TRUE, "valid", 1, TRUE, "none", TRUE, 900, "ok"), -1, FALSE),
      Feature(Geom(wkbPolygon, TRUE, "valid", 1, TRUE, "ok", FALSE, 900, "ok"), -1, FALSE),
      Feature(GoodPolygon(399, "ok"), 250, TRUE),
      Feature(GoodPolygon(399, "nocentroid"), -1, FALSE),
      Feature(GoodPolygon(398, "ok"), -1, FALSE),
      Feature(GoodPolygon(400, "ok"), 400, FALSE),
      Feature(Geom(wkbMultiPolygon, TRUE, "valid", 2, TRUE, "ok", TRUE, 100, "ok"), -1, FALSE),
      Feature(Geom(wkbPoint, TRUE, "valid", 0, TRUE, "ok", TRUE, 0, "ok"), -1, FALSE) }

\* -------------------------------------------------- the attribute auditor
\* Strings the code builds, compares or searches are sequences of
\* characters.

\* validation.OPTIONAL_FIELDS
OPTIONAL_FIELDS == <<"ProductionPlace", "ProducerName", "ProducerCountry", "Area">>

\* validation.VALID_ISO2_CODES
VALID_ISO2_CODES ==
    {
      <<"A", "D">>, <<"A", "E">>, <<"A", "F">>, <<"A", "G">>, <<"A", "I">>, <<"A", "L">>,
      <<"A", "M">>, <<"A", "O">>, <<"A", "Q">>, <<"A", "R">>, <<"A", "S">>, <<"A", "T">>,
      <<"A", "U">>, <<"A", "W">>, <<"A", "X">>, <<"A", "Z">>, <<"B", "A">>, <<"B", "B">>,
      <<"B", "D">>, <<"B", "E">>, <<"B", "F">>, <<"B", "G">>, <<"B", "H">>, <<"B", "I">>,
      <<"B", "J">>, <<"B", "L">>, <<"B", "M">>, <<"B", "N">>, <<"B", "O">>, <<"B", "Q">>,
      <<"B", "R">>, <<"B", "S">>, <<"B", "T">>, <<"B", "V">>, <<"B", "W">>, <<"B", "Y">>,
      <<"B", "Z">>, <<"C", "A">>, <<"C", "C">>, <<"C", "D">>, <<"C", "F">>, <<"C", "G">>,
      <<"C", "H">>, <<"C", "I">>, <<"C", "K">>, <<"C", "L">>, <<"C", "M">>, <<"C", "N">>,
      <<"C", "O">>, <<"C", "R">>, <<"C", "U">>, <<"C", "V">>, <<"C", "W">>, <<"C", "X">>,
      <<"C", "Y">>, <<"C", "Z">>, <<"D", "E">>, <<"D", "J">>, <<"D", "K">>, <<"D", "M">>,
      <<"D", "O">>, <<"D", "Z">>, <<"E", "C">>, <<"E", "E">>, <<"E", "G">>, <<"E", "H">>,
      <<"E", "R">>, <<"E", "S">>, <<"E", "T">>, <<"F", "I">>, <<"F", "J">>, <<"F", "K">>,
      <<"F", "M">>, <<"F", "O">>, <<"F", "R">>, <<"G", "A">>, <<"G", "B">>, <<"G", "D">>,
      <<"G", "E">>, <<"G", "F">>, <<"G", "G">>, <<"G", "H">>, <<"G", "I">>, <<"G", "L">>,
      <<"G", "M">>, <<"G", "N">>, <<"G", "P">>, <<"G", "Q">>, <<"G", "R">>, <<"G", "S">>,
      <<"G", "T">>, <<"G", "U">>, <<"G", "W">>, <<"G", "Y">>, <<"H", "K">>, <<"H", "M">>,
      <<"H", "N">>, <<"H", "R">>, <<"H", "T">>, <<"H", "U">>, <<"I", "D">>, <<"I", "E">>,
      <<"I", "L">>, <<"I", "M">>, <<"I", "N">>, <<"I", "O">>, <<"I", "Q">>, <<"I", "R">>,
      <<"I", "S">>, <<"I", "T">>, <<"J", "E">>, <<"J", "M">>, <<"J", "O">>, <<"J", "P">>,
      <<"K", "E">>, <<"K", "G">>, <<"K", "H">>, <<"K", "I">>, <<"K", "M">>, <<"K", "N">>,
      <<"K", "P">>, <<"K", "R">>, <<"K", "W">>, <<"K", "Y">>, <<"K", "Z">>, <<"L", "A">>,
      <<"L", "B">>, <<"L", "C">>, <<"L", "I">>, <<"L", "K">>, <<"L", "S">>, <<"L", "T">>,
      <<"L", "U">>, <<"L", "V">>, <<"L", "Y">>, <<"M", "A">>, <<"M", "C">>, <<"M", "D">>,
      <<"M", "E">>, <<"M", "F">>, <<"M", "G">>, <<"M", "H">>, <<"M", "K">>, <<"M", "L">>,
      <<"M", "M">>, <<"M", "N">>, <<"M", "O">>, <<"M", "P">>, <<"M", "Q">>, <<"M", "R">>,
      <<"M", "S">>, <<"M", "T">>, <<"M", "U">>, <<"M", "V">>, <<"M", "W">>, <<"M", "X">>,
      <<"M", "Y">>, <<"M", "Z">>, <<"N", "A">>, <<"N", "C">>, <<"N", "E">>, <<"N", "F">>,
      <<"N", "G">>, <<"N", "I">>, <<"N", "L">>, <<"N", "O">>, <<"N", "P">>, <<"N", "R">>,
      <<"N", "U">>, <<"N", "Z">>, <<"O", "M">>, <<"P", "A">>, <<"P", "E">>, <<"P", "F">>,
      <<"P", "G">>, <<"P", "H">>, <<"P", "K">>, <<"P", "L">>, <<"P", "M">>, <<"P", "N">>,
      <<"P", "R">>, <<"P", "S">>, <<"P", "T">>, <<"P", "W">>, <<"P", "Y">>, <<"Q", "A">>,
      <<"R", "E">>, <<"R", "O">>, <<"R", "S">>, <<"R", "U">>, <<"R", "W">>, <<"S", "A">>,
      <<"S", "B">>, <<"S", "C">>, <<"S", "D">>, <<"S", "E">>, <<"S", "G">>, <<"S", "H">>,
      <<"S", "I">>, <<"S", "J">>, <<"S", "K">>, <<"S", "L">>, <<"S", "M">>, <<"S", "N">>,
      <<"S", "O">>, <<"S", "R">>, <<"S", "S">>, <<"S", "T">>, <<"S", "V">>, <<"S", "X">>,
      <<"S", "Y">>, <<"S", "Z">>, <<"T", "C">>, <<"T", "D">>, <<"T", "F">>, <<"T", "G">>,
      <<"T", "H">>, <<"T", "J">>, <<"T", "K">>, <<"T", "L">>, <<"T", "M">>, <<"T", "N">>,
      <<"T", "O">>, <<"T", "R">>, <<"T", "T">>, <<"T", "V">>, <<"T", "W">>, <<"T", "Z">>,
      <<"U", "A">>, <<"U", "G">>, <<"U", "M">>, <<"U", "S">>, <<"U", "Y">>, <<"U", "Z">>,
      <<"V", "A">>, <<"V", "C">>, <<"V", "E">>, <<"V", "G">>, <<"V", "I">>, <<"V", "N">>,
      <<"V", "U">>, <<"W", "F">>, <<"W", "S">>, <<"Y", "E">>, <<"Y", "T">>, <<"Z", "A">>,
      <<"Z", "M">>, <<"Z", "W">> }

LowerCase ==
    <<"a", "b", "c", "d", "e", "f", "g", "h", "i", "j", "k", "l", "m",
      "n", "o", "p", "q", "r", "s", "t", "u", "v", "w", "x", "y", "z">>
UpperCase ==
    <<"A", "B", "C", "D", "E", "F", "G", "H", "I", "J", "K", "L", "M",
      "N", "O", "P", "Q", "R", "S", "T", "U", "V", "W", "X", "Y", "Z">>

\* value.upper()
Upper(value) ==
    [i \in 1..Len(value) |->
        IF \E k \in 1..Len(LowerCase) : LowerCase[k] = value[i]
        THEN UpperCase[CHOOSE k \in 1..Len(LowerCase) : LowerCase[k] = value[i]]
        ELSE value[i]]

\* A field of a feature, as feature.GetFieldIndex and feature.GetField give
\* it.  kind: "absent" (the index is -1), "null" (the value is None), "str",
\* "num" (an int or a float); s is the value as an f-string formats it.
Absent == [kind |-> "absent", s |-> <<>>]
Null == [kind |-> "null", s |-> <<"N", "o", "n", "e">>]
StrValue(s) == [kind |-> "str", s |-> s]
NumValue(s) == [kind |-> "num", s |-> s]

\* the notes of check_optional_properties
NoteNotIncluded == <<"N", "o", "t", " ", "i", "n", "c", "l", "u", "d", "e", "d">>
NoteOK == <<"O", "K">>
NoteInvalidDataType ==
    <<"I", "n", "v", "a", "l", "i", "d", " ", "d", "a", "t", "a", " ", "t", "y", "p", "e">>

\* f"Invalid value: '{value}'"
NoteInvalidValue(value) ==
    <<"I", "n", "v", "a", "l", "i", "d", " ", "v", "a", "l", "u", "e", ":", " ", "'">>
        \o value.s \o <<"'">>

\* sep.join(parts)
RECURSIVE JoinWith(_, _)
JoinWith(parts, sep) ==
    IF parts = <<>> THEN <<>>
    ELSE IF Len(parts) = 1 THEN parts[1]
    ELSE parts[1] \o sep \o JoinWith(Tail(parts), sep)

\* sub in s, for strings
Contains(sub, s) ==
    \E i \in 1..(Len(s) - Len(sub) + 1) : SubSeq(s, i, i + Len(sub) - 1) = sub

\* FieldNote that compares the value as it is (no value.upper())
FieldNoteCaseSensitive(field_name, value) ==
    IF value.kind = "absent" THEN NoteNotIncluded
    ELSE IF field_name = "ProducerCountry"
    THEN IF value.kind = "str" /\ value.s \in VALID_ISO2_CODES
         THEN NoteOK
         ELSE NoteInvalidValue(value)
    ELSE IF field_name = "Area"
    THEN IF value.kind = "num" THEN NoteOK ELSE NoteInvalidDataType
    ELSE NoteOK

\* lines 77-86: the note of one optional field
FieldNote(field_name, value) ==
    IF value.kind = "absent" THEN NoteNotIncluded
    ELSE IF field_name = "ProducerCountry"
    THEN IF value.kind = "str" /\ Upper(value.s) \in VALID_ISO2_CODES
         THEN NoteOK
         ELSE NoteInvalidValue(value)
    ELSE IF field_name = "Area"
    THEN IF value.kind = "num" THEN NoteOK ELSE NoteInvalidDataType
    ELSE NoteOK

\* validation.check_optional_properties: fields is the feature, by field name
CheckOptionalProperties(fields) ==
    JoinWith([k \in 1..Len(OPTIONAL_FIELDS) |->
                 FieldNote(OPTIONAL_FIELDS[k], fields[OPTIONAL_FIELDS[k]])],
             <<";", " ">>)

\* the literal "OK; OK; OK; OK" of line 93
AllOkNote ==
    <<"O", "K", ";", " ", "O", "K", ";", " ", "O", "K", ";", " ", "O", "K">>

\* the literal "Invalid" of line 92
InvalidWord == <<"I", "n", "v", "a", "l", "i", "d">>

\* SummarizeAttributeStatus that looks for issues before it looks for all-OK
\* and takes a missing field for an issue
SummarizeAttributeStatusStrict(all_notes) ==
    IF all_notes = <<>> THEN "N/A"
    ELSE IF \E i \in 1..Len(all_notes) : all_notes[i] # AllOkNote
    THEN "Attribute issues found"
    ELSE "All optional attributes valid"

\* validation.summarize_attribute_status
SummarizeAttributeStatus(all_notes) ==
    LET has_issues == \E i \in 1..Len(all_notes) : Contains(InvalidWord, all_notes[i])
        all_ok == \A i \in 1..Len(all_notes) : all_notes[i] = AllOkNote
    IN  IF all_notes = <<>> THEN "N/A"
        ELSE IF all_ok THEN "All optional attributes valid"
        ELSE IF has_issues THEN "Attribute issues found"
        ELSE "Some attributes not included"

\* the optional fields of an input feature of the partitioning pass: its
\* Area attribute if it has one, and none of the other three
OptionalFieldsOf(in_feature) ==
    [ProductionPlace |-> Absent, ProducerName |-> Absent, ProducerCountry |-> Absent,
     Area |-> IF in_feature.Area = -1 THEN Absent ELSE NumValue(<<>>)]

\* --------------------------------------------------- the partitioning pass

\* stats = {'total': 0, 'valid_large': 0, 'review': 0, 'autofixed': 0, 'candidates': 0}
ZeroStats == [total |-> 0, valid_large |-> 0, review |-> 0, autofixed |-> 0, candidates |-> 0]

\* the state of one partition_and_process_dataset call: its counters, its
\* detailed rows and the three layers it writes
EmptyPartition ==
    [stats |-> ZeroStats, detailed_rows |-> <<>>,
     review |-> <<>>, candidates |-> <<>>, valid |-> <<>>]

\* `action_taken or default`
Or(action_taken, default) == IF action_taken = "None" THEN default ELSE action_taken

\* one entry of detailed_rows
DetailRow(in_feature, dataset_stem, qa_id, final_status, action_taken, reason_notes) ==
    [original_filename |-> dataset_stem \o <<".geojson">>,
     qa_assistant_id |-> qa_id,
     final_status |-> final_status,
     action_taken |-> action_taken,
     reason_notes |-> reason_notes,
     attribute_status |-> CheckOptionalProperties(OptionalFieldsOf(in_feature))]

\* review_feature: SetFrom(in_feature) [, SetGeometry(geom)], SetField("qa_issue", reason)
ReviewFeature(in_feature, qa_id, geom, reason) ==
    [id |-> qa_id, geom |-> geom, Area |-> in_feature.Area, qa_issue |-> reason]

\* valid_feature: SetFrom(in_feature), SetGeometry(geom)
ValidFeature(in_feature, qa_id, geom) ==
    [id |-> qa_id, geom |-> geom, Area |-> in_feature.Area]

\* IsCandidate with the threshold included (<= for <)
IsCandidateInclusive(identify, geom, area_ha) ==
    /\ identify
    /\ BaseType(geom.gtype) = wkbPolygon
    /\ area_ha <= MIN_AREA_HA_FOR_POLYGON

\* the candidacy test of lines 124-126
IsCandidate(identify, geom, area_ha) ==
    /\ identify
    /\ BaseType(geom.gtype) = wkbPolygon
    /\ area_ha < MIN_AREA_HA_FOR_POLYGON

\* stats['autofixed'] += 1 when the classifier's action is "Auto-fixed"
CountAutofixed(stats, action_taken) ==
    IF action_taken = "Auto-fixed"
    THEN [stats EXCEPT !.autofixed = @ + 1]
    ELSE stats

\* the feature the classifier rejected: lines 83-99
RouteRejected(st, stats, in_feature, qa_id, geom, v, dataset_stem) ==
    [st EXCEPT
        !.stats = [stats EXCEPT !.review = @ + 1],
        !.review = Append(@, ReviewFeature(in_feature, qa_id, geom, v.reason)),
        !.detailed_rows = Append(@,
            DetailRow(in_feature, dataset_stem, qa_id, "Requires Review",
                      Or(v.action_taken, "Segregated"), v.reason))]

\* RouteAreaFailure without `reason = "Could not calculate area"`: the
\* classifier's reason is still in the variable
RouteAreaFailureStaleReason(st, stats, in_feature, qa_id, v, dataset_stem) ==
    [st EXCEPT
        !.stats = [stats EXCEPT !.review = @ + 1],
        !.review = Append(@, ReviewFeature(in_feature, qa_id, in_feature.geom, v.reason)),
        !.detailed_rows = Append(@,
            DetailRow(in_feature, dataset_stem, qa_id, "Requires Review",
                      Or(v.action_taken, "Segregated"), v.reason))]

\* the feature whose area could not be calculated: lines 102-118
RouteAreaFailure(st, stats, in_feature, qa_id, v, dataset_stem) ==
    [st EXCEPT
        !.stats = [stats EXCEPT !.review = @ + 1],
        !.review = Append(@, ReviewFeature(in_feature, qa_id, in_feature.geom,
                                           "Could not calculate area")),
        !.detailed_rows = Append(@,
            DetailRow(in_feature, dataset_stem, qa_id, "Requires Review",
                      Or(v.action_taken, "Segregated"), "Could not calculate area"))]

\* RouteCandidate without `stats['candidates'] += 1`
RouteCandidateUncounted(st, stats, in_feature, qa_id, geom, v, dataset_stem) ==
    [st EXCEPT
        !.stats = stats,
        !.candidates = Append(@, ValidFeature(in_feature, qa_id, geom)),
        !.detailed_rows = Append(@,
            DetailRow(in_feature, dataset_stem, qa_id, "Candidate for Conversion",
                      Or(v.action_taken, "Identified"), "Area is < 4ha"))]

\* lines 127-137
RouteCandidate(st, stats, in_feature, qa_id, geom, v, dataset_stem) ==
    [st EXCEPT
        !.stats = [stats EXCEPT !.candidates = @ + 1],
        !.candidates = Append(@, ValidFeature(in_feature, qa_id, geom)),
        !.detailed_rows = Append(@,
            DetailRow(in_feature, dataset_stem, qa_id, "Candidate for Conversion",
                      Or(v.action_taken, "Identified"), "Area is < 4ha"))]

\* lines 139-149
RouteValid(st, stats, in_feature, qa_id, geom, v, dataset_stem) ==
    [st EXCEPT
        !.stats = [stats EXCEPT !.valid_large = @ + 1],
        !.valid = Append(@, ValidFeature(in_feature, qa_id, geom)),
        !.detailed_rows = Append(@,
            DetailRow(in_feature, dataset_stem, qa_id, "Valid",
                      Or(v.action_taken, "N/A"), "Valid"))]

\* the body of `for in_feature in in_layer` (lines 73-149) for one feature.
\* geom is the caller's own reference in_feature.GetGeometryRef(): the
\* classifier's rebinding of its parameter does not reach it.
PartitionFeature(st, in_feature, qa_id, dataset_stem, autofix, simplify, identify) ==
    LET geom == in_feature.geom
        v == ValidateAndFixGeometry(geom, autofix, simplify)
        stats == CountAutofixed([st.stats EXCEPT !.total = @ + 1], v.action_taken)
        area == GetAreaInHectares(geom)
    IN  IF ~v.is_valid
        THEN RouteRejected(st, stats, in_feature, qa_id, geom, v, dataset_stem)
        ELSE IF ~area.ok
        THEN RouteAreaFailure(st, stats, in_feature, qa_id, v, dataset_stem)
        ELSE IF IsCandidate(identify, geom, area.ha)
        THEN RouteCandidate(st, stats, in_feature, qa_id, geom, v, dataset_stem)
        ELSE RouteValid(st, stats, in_feature, qa_id, geom, v, dataset_stem)

\* the whole loop over a layer: features is the sequence of input features
RECURSIVE PartitionLoop(_, _, _, _, _, _, _)
PartitionLoop(st, features, i, dataset_stem, autofix, simplify, identify) ==
    IF i > Len(features) THEN st
    ELSE PartitionLoop(
            PartitionFeature(st, features[i],
                             FeatureId(dataset_stem, i - 1, features[i].exploded),
                             dataset_stem, autofix, simplify, identify),
            features, i + 1, dataset_stem, autofix, simplify, identify)

\* ------------------------------------------------- files of a session

Stems == {StemA, StemB}

\* a GeoJSON store file: ok = FALSE is a file json.load cannot read
NoFile == [exists |-> FALSE, ok |-> FALSE, features |-> <<>>]
StoreFile(features) == [exists |-> TRUE, ok |-> TRUE, features |-> features]
CorruptFile == [exists |-> TRUE, ok |-> FALSE, features |-> <<>>]

\* the file <stem>_candidates.geojson (_valid, _review) of a store directory
FileOf(store, stem) == IF stem \in DOMAIN store THEN store[stem] ELSE NoFile

\* reports.initialize_reports, reports.log_detailed_rows_to_report
ReportFile(rows) == [exists |-> TRUE, rows |-> rows]

\* ------------------------------------------------------ string operations

\* s.split(c) for a one-character separator
RECURSIVE SplitFrom(_, _, _, _)
SplitFrom(s, c, i, current) ==
    IF i > Len(s) THEN <<current>>
    ELSE IF s[i] = c THEN <<current>> \o SplitFrom(s, c, i + 1, <<>>)
    ELSE SplitFrom(s, c, i + 1, Append(current, s[i]))

Split(s, c) == SplitFrom(s, c, 1, <<>>)

\* c.join(parts)
RECURSIVE Join(_, _)
Join(parts, c) ==
    IF parts = <<>> THEN <<>>
    ELSE IF Len(parts) = 1 THEN parts[1]
    ELSE parts[1] \o <<c>> \o Join(Tail(parts), c)

\* parts[:-1]
AllButLast(parts) == SubSeq(parts, 1, Len(parts) - 1)

\* s.split('-p')[0]: s up to the first "-p"
RECURSIVE BeforeDashP(_, _)
BeforeDashP(s, i) ==
    IF i > Len(s) THEN s
    ELSE IF i < Len(s) /\ s[i] = "-" /\ s[i + 1] = "p" THEN SubSeq(s, 1, i - 1)
    ELSE BeforeDashP(s, i + 1)

\* line 199: "_".join(qa_id.split('_')[:-1]).split('-p')[0]
OriginalStem(qa_id) == BeforeDashP(Join(AllButLast(Split(qa_id, "_")), "_"), 1)

\* ---------------------------------------------------------- the conversion

\* x in xs, for a list
In(x, xs) == \E i \in 1..Len(xs) : xs[i] = x

\* lines 197-202: the requested identifiers by stem, a dict in insertion order
RECURSIVE CandidatesByFile(_, _, _)
CandidatesByFile(qa_ids, i, groups) ==
    IF i > Len(qa_ids) THEN groups
    ELSE LET stem == OriginalStem(qa_ids[i])
             at == {k \in 1..Len(groups) : groups[k].stem = stem}
         IN  CandidatesByFile(qa_ids, i + 1,
                IF at = {}
                THEN Append(groups, [stem |-> stem, ids |-> <<qa_ids[i]>>])
                ELSE [k \in 1..Len(groups) |->
                        IF k \in at
                        THEN [groups[k] EXCEPT !.ids = Append(@, qa_ids[i])]
                        ELSE groups[k]])

\* geom.Centroid() of the geometry parsed from the store, as a point
CentroidPoint(geom) ==
    [geom EXCEPT !.gtype = wkbPoint, !.rings = 0, !.ver = "centroid"]

\* PointFeature without the test `'Area' in feature['properties']`
PointFeatureAlwaysArea(feature) ==
    [feature EXCEPT !.geom = CentroidPoint(feature.geom),
                    !.Area = MIN_AREA_HA_FOR_POLYGON]

\* lines 246-248: the feature with its geometry replaced by the centroid and
\* its Area attribute, if it has one, set to the threshold
PointFeature(feature) ==
    [feature EXCEPT !.geom = CentroidPoint(feature.geom),
                    !.Area = IF feature.Area # -1 THEN MIN_AREA_HA_FOR_POLYGON ELSE @]

\* lines 235-244: the geometry of the stored feature parses, is not empty and
\* has a centroid
Convertible(feature) == feature.geom.json = "ok"

\* what the loop of lines 231-255 has collected
NothingCollected ==
    [new_point_features |-> <<>>, candidates_to_remove |-> <<>>,
     failed |-> <<>>, converted |-> 0]

\* ConvertFeatures that gives up the whole group at the first feature that
\* does not convert
RECURSIVE ConvertFeaturesAbortOnFailure(_, _, _, _)
ConvertFeaturesAbortOnFailure(features, ids, i, acc) ==
    IF i > Len(features) THEN acc
    ELSE LET feature == features[i] IN
         IF ~In(feature.id, ids)
         THEN ConvertFeaturesAbortOnFailure(features, ids, i + 1, acc)
         ELSE IF ~Convertible(feature)
         THEN [NothingCollected EXCEPT !.failed = ids]
         ELSE ConvertFeaturesAbortOnFailure(features, ids, i + 1,
                [acc EXCEPT
                    !.new_point_features = Append(@, PointFeature(feature)),
                    !.candidates_to_remove = Append(@, feature.id),
                    !.converted = @ + 1])

\* lines 231-255: the loop over the features of the candidates file
RECURSIVE ConvertFeatures(_, _, _, _)
ConvertFeatures(features, ids, i, acc) ==
    IF i > Len(features) THEN acc
    ELSE LET feature == features[i] IN
         ConvertFeatures(features, ids, i + 1,
            IF ~In(feature.id, ids) THEN acc
            ELSE IF ~Convertible(feature)
            THEN [acc EXCEPT !.failed = Append(@, feature.id)]
            ELSE [acc EXCEPT
                    !.new_point_features = Append(@, PointFeature(feature)),
                    !.candidates_to_remove = Append(@, feature.id),
                    !.converted = @ + 1])

\* AllFeatures without the existing features of the valid file
OnlyNewFeatures(existing_features, new_features) == new_features

\* line 272: the features written to the valid file
AllFeatures(existing_features, new_features) == existing_features \o new_features

\* lines 287-290: the features that stay in the candidates file
RECURSIVE RemainingCandidates(_, _)
RemainingCandidates(features, candidates_to_remove) ==
    IF features = <<>> THEN <<>>
    ELSE (IF In(Head(features).id, candidates_to_remove) THEN <<>> ELSE <<Head(features)>>)
            \o RemainingCandidates(Tail(features), candidates_to_remove)

\* lines 304-307: the identifiers of the new features
RECURSIVE FeatureIds(_)
FeatureIds(features) ==
    IF features = <<>> THEN <<>>
    ELSE <<Head(features).id>> \o FeatureIds(Tail(features))

\* line 319: the requested identifiers that are not in failed_ids
RECURSIVE SuccessfullyConverted(_, _)
SuccessfullyConverted(qa_ids, failed_ids) ==
    IF qa_ids = <<>> THEN <<>>
    ELSE (IF In(Head(qa_ids), failed_ids) THEN <<>> ELSE <<Head(qa_ids)>>)
            \o SuccessfullyConverted(Tail(qa_ids), failed_ids)

\* UpdateRows without `row['action_taken'] = 'Converted to Point'`
UpdateRowsStatusOnly(rows, successfully_converted) ==
    [i \in 1..Len(rows) |->
        IF In(rows[i].qa_assistant_id, successfully_converted)
        THEN [rows[i] EXCEPT !.final_status = "Valid"]
        ELSE rows[i]]

\* lines 320-323: the rows of the detailed report, reconciled
UpdateRows(rows, successfully_converted) ==
    [i \in 1..Len(rows) |->
        IF In(rows[i].qa_assistant_id, successfully_converted)
        THEN [rows[i] EXCEPT !.final_status = "Valid",
                             !.action_taken = "Converted to Point"]
        ELSE rows[i]]

\* ------------------------------------------------------------------- state

\* the request threads of the web server
Threads == {1, 2}

VARIABLES
    autofix,             \* EudrGisQaAssistant.autofix_geometries
    simplify,            \* EudrGisQaAssistant.simplify_geometries
    identify_candidates, \* EudrGisQaAssistant.identify_candidates
    pc,                  \* where the partitioning call stands
    in_layer,            \* the features read from the input layer so far
    part,                \* the call's stats, detailed_rows and three layers
    valid_store,         \* 04_processed_valid/<stem>_valid.geojson, by stem
    review_store,        \* 05_processed_review_features/<stem>_review.geojson
    candidates_store,    \* 06_candidates_for_conversion/<stem>_candidates.geojson
    detailed_report,     \* detailed_report_<date>.csv
    req,                 \* the local state of each thread's conversion call
    pre,                 \* the stores as they were when each call started
    faults,              \* the store writes that have failed so far
    run,                 \* where EudrGisQaAssistant.run stands, and its locals
    summary_report,      \* summary_report_<date>.csv
    audit,               \* the attribute statuses of a layer and their summary
    call,                \* one call of a function of the library, and its result
    tasks,               \* main.tasks, the task registry, by session
    upload_folder,       \* the session directories under UPLOAD_FOLDER
    worker,              \* where the thread of run_gis_task stands
    handler              \* where the request handler of /cleanup or /status stands

partVars == <<autofix, simplify, identify_candidates, pc, in_layer, part>>
runVars == <<run, summary_report, audit>>
fileVars == <<valid_store, review_store, candidates_store, detailed_report>>
callVars == <<call>>
taskVars == <<tasks, upload_folder, worker, handler>>
vars == <<autofix, simplify, identify_candidates, pc, in_layer, part,
          valid_store, review_store, candidates_store, detailed_report, req, pre, faults,
          run, summary_report, audit, call, tasks, upload_folder, worker, handler>>

\* a thread that is not in batch_convert_candidates_to_points
Idle ==
    [pc |-> "idle", qa_ids |-> <<>>, converted_count |-> 0, failed_ids |-> <<>>,
     groups |-> <<>>, gi |-> 0, existing_valid_features |-> <<>>,
     converted_features |-> <<>>, wi |-> 0, remaining_candidates |-> <<>>,
     rows |-> <<>>, write_failed |-> {}]

NoStores == [s \in Stems |-> NoFile]

\* EudrGisQaAssistant.run is not under way
NoRun ==
    [pc |-> "idle", datasets_to_process |-> <<>>, unsupported |-> FALSE, i |-> 0,
     traced_files |-> <<>>, exploded_files |-> <<>>, all_detailed_rows |-> <<>>,
     invalid_global_dir |-> {}, deleted |-> {}]

\* no layer is being audited
NoAudit == [pc |-> "idle", layer |-> <<>>, notes |-> <<>>, summary |-> ""]

\* no function is being called
NoCall == [pc |-> "idle"]

\* no session was submitted: the registry and the upload folder are empty
NoTasks == <<>>
NoSessions == <<>>
NoWorker == [pc |-> "idle"]
NoHandler == [pc |-> "idle"]

\* no call of the thread is under way
NoSnapshot == [candidates |-> NoStores, valid |-> NoStores]

\* partition_and_process_dataset(ds, "a", ...), before the first feature
Init ==
    /\ autofix \in BOOLEAN
    /\ simplify \in BOOLEAN
    /\ identify_candidates \in BOOLEAN
    /\ pc = "loop"
    /\ in_layer = <<>>
    /\ part = EmptyPartition
    /\ valid_store = NoStores
    /\ review_store = NoStores
    /\ candidates_store = NoStores
    /\ detailed_report = ReportFile(<<>>)
    /\ req = [r \in Threads |-> Idle]
    /\ pre = [r \in Threads |-> NoSnapshot]
    /\ faults = 0
    /\ run = NoRun
    /\ summary_report = ReportFile(<<>>)
    /\ audit = NoAudit
    /\ call = NoCall
    /\ tasks = NoTasks
    /\ upload_folder = NoSessions
    /\ worker = NoWorker
    /\ handler = NoHandler

\* one iteration of `for in_feature in in_layer`
ProcessFeature ==
    /\ pc = "loop"
    /\ Len(in_layer) < MaxFeatures
    /\ \E f \in FeatureSamples :
         LET qa_id == FeatureId(StemA, Len(in_layer), f.exploded) IN
         /\ in_layer' = Append(in_layer, [feature |-> f, id |-> qa_id])
         /\ part' = PartitionFeature(part, f, qa_id, StemA,
                                     autofix, simplify, identify_candidates)
    /\ UNCHANGED <<callVars, taskVars, autofix, simplify, identify_candidates, pc, fileVars, req, pre, faults, runVars>>

\* the layer is exhausted: `del review_ds, candidates_ds, valid_ds` closes
\* the three files, and the call returns
Return ==
    /\ pc = "loop"
    /\ pc' = "returned"
    /\ valid_store' = [valid_store EXCEPT ![StemA] = StoreFile(part.valid)]
    /\ review_store' = [review_store EXCEPT ![StemA] = StoreFile(part.review)]
    /\ candidates_store' = [candidates_store EXCEPT ![StemA] = StoreFile(part.candidates)]
    /\ UNCHANGED <<callVars, taskVars, autofix, simplify, identify_candidates, in_layer, part,
                   detailed_report, req, pre, faults, runVars>>

Next == ProcessFeature \/ Return

Spec == Init /\ [][Next]_vars

\* ------------------------------------------- the session after a run

\* the features of the datasets of a converted session, all polygons (the
\* explode step of the run passes nothing else on): a polygon with a hole
\* (review), a polygon of 4.0 ha (valid) and three small polygons
\* (candidates), one with an Area attribute, one without, and one that has
\* no centroid when it is read back
ConvertSamples ==
    {f \in FeatureSamples :
        /\ f.geom.present /\ ~f.geom.empty /\ f.geom.valid
        /\ f.geom.verts
        /\ f.geom.centroid = "ok" /\ f.geom.transform
        /\ f.geom.gtype = wkbPolygon}

SeqsUpTo(S, n) == UNION {[1..k -> S] : k \in 0..n}

\* EudrGisQaAssistant.run has partitioned the datasets a and b (core.py
\* 93-98) and written the detailed report (core.py 115)
InitConvert ==
    \E fa \in SeqsUpTo(ConvertSamples, MaxFeatures) :
    \E fb \in SeqsUpTo(ConvertSamples, MaxFeatures - Len(fa)) :
        LET pa == PartitionLoop(EmptyPartition, fa, 1, StemA, TRUE, FALSE, TRUE)
            pb == PartitionLoop(EmptyPartition, fb, 1, StemB, TRUE, FALSE, TRUE)
        IN  /\ autofix = TRUE
            /\ simplify = FALSE
            /\ identify_candidates = TRUE
            /\ pc = "reported"
            /\ in_layer = <<>>
            /\ part = EmptyPartition
            /\ valid_store = (StemA :> StoreFile(pa.valid)) @@ (StemB :> StoreFile(pb.valid))
            /\ review_store = (StemA :> StoreFile(pa.review)) @@ (StemB :> StoreFile(pb.review))
            /\ candidates_store =
                  (StemA :> StoreFile(pa.candidates)) @@ (StemB :> StoreFile(pb.candidates))
            /\ detailed_report = ReportFile(pa.detailed_rows \o pb.detailed_rows)
            /\ req = [r \in Threads |-> Idle]
            /\ pre = [r \in Threads |-> NoSnapshot]
            /\ faults = 0
            /\ run = NoRun
            /\ summary_report = ReportFile(<<>>)
            /\ audit = NoAudit
            /\ call = NoCall
            /\ tasks = NoTasks
            /\ upload_folder = NoSessions
            /\ worker = NoWorker
            /\ handler = NoHandler

\* --------------------------- batch_convert_candidates_to_points, by step
\* A step is the code up to and including one access to a file: between two
\* steps of a call another thread's call may run.

\* identifiers in requests
MaxIds == 2

\* an identifier of a dataset that was never uploaded
UnknownId == InjectedId(<<"c">>, 0)

\* lines 321: row['qa_assistant_id'] of the rows the report has
RECURSIVE RowIds(_)
RowIds(rows) ==
    IF rows = <<>> THEN <<>>
    ELSE <<Head(rows).qa_assistant_id>> \o RowIds(Tail(rows))

\* the identifiers a client can ask for: those the report shows, and one the
\* session never had
Requestable == RowIds(detailed_report.rows) \o <<UnknownId>>

\* the lists of identifiers of a request: qa_ids of convert_all_to_point, or
\* the [qa_id] of convert_to_point
Requests ==
    {[i \in 1..Len(pos) |-> Requestable[pos[i]]] :
        pos \in {p \in UNION {[1..k -> 1..Len(Requestable)] : k \in 1..MaxIds} :
                    \A i, j \in 1..Len(p) : i < j => p[i] < p[j]}}

\* the next group of the loop of line 205, or the writing loop of line 270
AfterGroup(q) ==
    IF q.gi < Len(q.groups)
    THEN [q EXCEPT !.gi = @ + 1, !.pc = "exists", !.existing_valid_features = <<>>]
    ELSE IF q.converted_features = <<>>
    THEN [q EXCEPT !.gi = 0, !.pc = "read_report", !.existing_valid_features = <<>>]
    ELSE [q EXCEPT !.gi = 0, !.pc = "write_valid", !.wi = 1,
                   !.existing_valid_features = <<>>]

\* failed_ids.extend(ids); continue
FailGroup(q) == AfterGroup([q EXCEPT !.failed_ids = @ \o q.groups[q.gi].ids])

\* the next entry of converted_features, or the report
AfterWrite(q) ==
    IF q.wi < Len(q.converted_features)
    THEN [q EXCEPT !.wi = @ + 1, !.pc = "write_valid", !.remaining_candidates = <<>>]
    ELSE [q EXCEPT !.wi = 0, !.pc = "read_report", !.remaining_candidates = <<>>]

\* lines 302-308: the except branch of the writing loop
WriteFailed(q) ==
    LET data == q.converted_features[q.wi] IN
    AfterWrite([q EXCEPT
        !.failed_ids = @ \o FeatureIds(data.new_features),
        !.converted_count = @ - Len(data.new_features),
        !.write_failed = @ \cup {data.original_stem}])

\* lines 189-202: the call starts and groups the identifiers
Start(r, qa_ids) ==
    /\ pc = "reported"
    /\ req[r].pc = "idle"
    /\ LET groups == CandidatesByFile(qa_ids, 1, <<>>) IN
       req' = [req EXCEPT ![r] =
                 [Idle EXCEPT !.qa_ids = qa_ids, !.groups = groups,
                              !.gi = 1, !.pc = "exists"]]
    /\ pre' = [pre EXCEPT ![r] = [candidates |-> candidates_store, valid |-> valid_store]]
    /\ UNCHANGED <<callVars, taskVars, runVars, partVars, fileVars, faults>>

\* lines 206-212: candidate_filepath.exists()
CandidateFileExists(r) ==
    LET q == req[r] IN
    /\ q.pc = "exists"
    /\ req' = [req EXCEPT ![r] =
                 IF FileOf(candidates_store, q.groups[q.gi].stem).exists
                 THEN [q EXCEPT !.pc = "read_valid"]
                 ELSE FailGroup(q)]
    /\ UNCHANGED <<callVars, taskVars, runVars, partVars, fileVars, pre, faults>>

\* lines 214-223: the existing features of the valid file
ReadValid(r) ==
    LET q == req[r]
        file == FileOf(valid_store, q.groups[q.gi].stem)
    IN  /\ q.pc = "read_valid"
        /\ req' = [req EXCEPT ![r] =
                     IF ~file.exists
                     THEN [q EXCEPT !.pc = "read_candidates"]
                     ELSE IF file.ok
                     THEN [q EXCEPT !.pc = "read_candidates",
                                    !.existing_valid_features = file.features]
                     ELSE FailGroup(q)]
        /\ UNCHANGED <<callVars, taskVars, runVars, partVars, fileVars, pre, faults>>

\* lines 225-268: the candidates file is read and the requested features of
\* it are converted in memory
ReadCandidates(r) ==
    LET q == req[r]
        g == q.groups[q.gi]
        file == FileOf(candidates_store, g.stem)
        got == ConvertFeatures(file.features, g.ids, 1, NothingCollected)
        counted == [q EXCEPT !.converted_count = @ + got.converted,
                             !.failed_ids = @ \o got.failed]
    IN  /\ q.pc = "read_candidates"
        /\ req' = [req EXCEPT ![r] =
                     IF ~file.exists \/ ~file.ok
                     THEN FailGroup(q)
                     ELSE IF got.new_point_features = <<>>
                     THEN AfterGroup(counted)
                     ELSE AfterGroup([counted EXCEPT !.converted_features =
                            Append(@, [original_stem |-> g.stem,
                                       existing_features |-> q.existing_valid_features,
                                       new_features |-> got.new_point_features,
                                       candidates_to_remove |-> got.candidates_to_remove])])]
        /\ UNCHANGED <<callVars, taskVars, runVars, partVars, fileVars, pre, faults>>

\* lines 271-280: the valid file is written
WriteValid(r) ==
    LET q == req[r]
        data == q.converted_features[q.wi]
    IN  /\ q.pc = "write_valid"
        /\ valid_store' = [valid_store EXCEPT ![data.original_stem] =
              StoreFile(AllFeatures(data.existing_features, data.new_features))]
        /\ req' = [req EXCEPT ![r] = [q EXCEPT !.pc = "reread_candidates"]]
        /\ UNCHANGED <<callVars, taskVars, runVars, partVars, review_store, candidates_store, detailed_report, pre, faults>>

\* lines 284-290: the candidates file is read again
RereadCandidates(r) ==
    LET q == req[r]
        data == q.converted_features[q.wi]
        file == FileOf(candidates_store, data.original_stem)
    IN  /\ q.pc = "reread_candidates"
        /\ req' = [req EXCEPT ![r] =
                     IF ~file.exists \/ ~file.ok
                     THEN WriteFailed(q)
                     ELSE [q EXCEPT !.pc = "write_candidates",
                                    !.remaining_candidates =
                                        RemainingCandidates(file.features,
                                                            data.candidates_to_remove)]]
        /\ UNCHANGED <<callVars, taskVars, runVars, partVars, fileVars, pre, faults>>

\* lines 292-301: the candidates file is written
WriteCandidates(r) ==
    LET q == req[r]
        data == q.converted_features[q.wi]
    IN  /\ q.pc = "write_candidates"
        /\ candidates_store' = [candidates_store EXCEPT ![data.original_stem] =
              StoreFile(q.remaining_candidates)]
        /\ req' = [req EXCEPT ![r] = AfterWrite(q)]
        /\ UNCHANGED <<callVars, taskVars, runVars, partVars, valid_store, review_store, detailed_report, pre, faults>>

\* lines 310-323: the detailed report is read and its rows reconciled
ReadReport(r) ==
    LET q == req[r]
        rows == IF detailed_report.exists THEN detailed_report.rows ELSE <<>>
    IN  /\ q.pc = "read_report"
        /\ req' = [req EXCEPT ![r] =
                     [q EXCEPT !.pc = "write_report",
                               !.rows = UpdateRows(rows,
                                   SuccessfullyConverted(q.qa_ids, q.failed_ids))]]
        /\ UNCHANGED <<callVars, taskVars, runVars, partVars, fileVars, pre, faults>>

\* lines 325-335: the report is written back and the call returns
\* (converted_count, failed_ids)
WriteReport(r) ==
    LET q == req[r] IN
    /\ q.pc = "write_report"
    /\ detailed_report' = IF q.rows # <<>> THEN ReportFile(q.rows) ELSE detailed_report
    /\ req' = [req EXCEPT ![r] =
                 [Idle EXCEPT !.pc = "done", !.qa_ids = q.qa_ids,
                              !.converted_count = q.converted_count,
                              !.failed_ids = q.failed_ids,
                              !.write_failed = q.write_failed]]
    /\ UNCHANGED <<callVars, taskVars, runVars, partVars, valid_store, review_store, candidates_store, pre, faults>>

\* the endpoint has answered: the thread is free for the next request
Respond(r) ==
    /\ req[r].pc = "done"
    /\ req' = [req EXCEPT ![r] = Idle]
    /\ pre' = [pre EXCEPT ![r] = NoSnapshot]
    /\ UNCHANGED <<callVars, taskVars, runVars, partVars, fileVars, faults>>

\* the steps of a call that is under way
Step(r) ==
    \/ CandidateFileExists(r)
    \/ ReadValid(r)
    \/ ReadCandidates(r)
    \/ WriteValid(r)
    \/ RereadCandidates(r)
    \/ WriteCandidates(r)
    \/ ReadReport(r)
    \/ WriteReport(r)

\* one request at a time
StartAlone ==
    /\ \A r \in Threads : req[r].pc = "idle"
    /\ \E qa_ids \in Requests : Start(1, qa_ids)

NextConvert == StartAlone \/ \E r \in Threads : Step(r) \/ Respond(r)

\* sequential conversion calls on a session, without I/O faults
SpecConvert == InitConvert /\ [][NextConvert]_vars

\* ------------------------------------------------ two requests at a time

\* convert_to_point (main.py 199-207) on a thread that has served no request
\* yet: the server takes no lock, so the calls of two threads interleave at
\* their file accesses
StartConcurrent ==
    \E r \in Threads : \E i \in 1..Len(Requestable) : Start(r, <<Requestable[i]>>)

NextConcurrent == StartConcurrent \/ \E r \in Threads : Step(r)

\* conversion requests served by two threads, without I/O faults
SpecConcurrent == InitConvert /\ [][NextConcurrent]_vars

\* --------------------------------------------------- writes that can fail

\* store writes that fail in one session
MaxFaults == 1

\* open(valid_filepath, 'w') or json.dump raises: the file is as it was, or
\* it is truncated; the except branch of lines 302-308 runs
WriteValidFails(r) ==
    LET q == req[r]
        data == q.converted_features[q.wi]
    IN  /\ q.pc = "write_valid"
        /\ faults < MaxFaults
        /\ faults' = faults + 1
        /\ \E file \in {valid_store[data.original_stem], CorruptFile} :
              valid_store' = [valid_store EXCEPT ![data.original_stem] = file]
        /\ req' = [req EXCEPT ![r] = WriteFailed(q)]
        /\ UNCHANGED <<callVars, taskVars, runVars, partVars, review_store, candidates_store, detailed_report, pre>>

\* open(candidate_filepath, 'w') or json.dump raises, after the valid file
\* was written
WriteCandidatesFails(r) ==
    LET q == req[r]
        data == q.converted_features[q.wi]
    IN  /\ q.pc = "write_candidates"
        /\ faults < MaxFaults
        /\ faults' = faults + 1
        /\ \E file \in {candidates_store[data.original_stem], CorruptFile} :
              candidates_store' = [candidates_store EXCEPT ![data.original_stem] = file]
        /\ req' = [req EXCEPT ![r] = WriteFailed(q)]
        /\ UNCHANGED <<callVars, taskVars, runVars, partVars, valid_store, review_store, detailed_report, pre>>

NextFaulty ==
    \/ NextConvert
    \/ \E r \in Threads : WriteValidFails(r) \/ WriteCandidatesFails(r)

\* sequential conversion calls whose store writes can fail
SpecFaulty == InitConvert /\ [][NextFaulty]_vars

\* ------------------------------------------- EudrGisQaAssistant.run, by step

\* features in the input datasets of one run
MaxInputFeatures == 2

\* a feature of an input dataset: its geometry, its Area attribute (-1: none),
\* the parts geom.GetGeometryRef(i) of a multi-polygon, and its traceability
\* identifier (empty before the injection)
InputFeature(geom, area_attr, parts) ==
    [geom |-> geom, Area |-> area_attr, parts |-> parts, id |-> <<>>]

\* a polygon of 4.0 ha, a small polygon, a multi-polygon of two small parts,
\* a line and a feature without geometry
InputSamples ==
    { InputFeature(GoodPolygon(400, "ok"), 400, <<>>),
      InputFeature(GoodPolygon(399, "ok"), -1, <<>>),
      InputFeature(Geom(wkbMultiPolygon, TRUE, "valid", 2, TRUE, "ok", TRUE, 500, "ok"), 500,
                   <<GoodPolygon(399, "ok"), GoodPolygon(101, "ok")>>),
      InputFeature(Geom(wkbLineString, TRUE, "valid", 0, TRUE, "ok", TRUE, 0, "ok"), -1, <<>>),
      InputFeature(NoGeom, -1, <<>>) }

\* layer.GetSpatialRef() of a dataset: the WGS84 reference, another
\* reference (EPSG:3857), or None
SpatialRefs == {"WGS84", "other", "none"}

\* what goes wrong with a dataset file: nothing; ogr.Open or a write fails
\* in the ID injection; the explode step fails; the exploded file cannot be
\* opened; the partitioning raises
DatasetFaults == {"none", "inject", "explode", "reopen", "partition"}

\* a dataset file <stem>.geojson
Dataset(stem, crs, fault, features) ==
    [stem |-> stem, name |-> stem \o <<".geojson">>, crs |-> crs,
     fault |-> fault, features |-> features]

\* a dataset <stem>.shp (with its .dbf, .shx and .prj)
Shapefile(stem, crs, fault, features) ==
    [Dataset(stem, crs, fault, features) EXCEPT !.name = stem \o <<".shp">>]

\* the datasets of a stem with at most n features
InputDatasets(stem, n) ==
    {Dataset(stem, crs, fault, features) :
        crs \in SpatialRefs, fault \in DatasetFaults,
        features \in SeqsUpTo(InputSamples, n)}

\* io.inject_traceability_id: [] for None, [the traced file] otherwise.  The
\* output layer has the spatial reference of the input layer.
InjectTraceabilityId(dataset) ==
    IF dataset.fault = "inject" THEN <<>>
    ELSE LET in_layer_features == dataset.features IN
         <<[dataset EXCEPT !.features =
               [i \in 1..Len(in_layer_features) |->
                   [in_layer_features[i] EXCEPT !.id = InjectedId(dataset.stem, i - 1)]]]>>

\* ExplodeFeature whose parts all keep the identifier of the multi-polygon
ExplodeFeatureSameId(in_feature) ==
    LET geom == in_feature.geom IN
    IF geom.present /\ geom.gtype = wkbMultiPolygon
    THEN [i \in 1..geom.rings |->
            [in_feature EXCEPT !.geom = in_feature.parts[i], !.parts = <<>>]]
    ELSE IF geom.present /\ geom.gtype = wkbPolygon
    THEN <<in_feature>>
    ELSE <<>>

\* io.explode_multipart_features, lines 59-70: the features one input
\* feature gives
ExplodeFeature(in_feature) ==
    LET geom == in_feature.geom IN
    IF geom.present /\ geom.gtype = wkbMultiPolygon
    THEN [i \in 1..geom.rings |->
            [in_feature EXCEPT !.geom = in_feature.parts[i], !.parts = <<>>,
                               !.id = ExplodedId(in_feature.id, i - 1)]]
    ELSE IF geom.present /\ geom.gtype = wkbPolygon
    THEN <<in_feature>>
    ELSE <<>>

RECURSIVE ExplodeLayer(_)
ExplodeLayer(features) ==
    IF features = <<>> THEN <<>>
    ELSE ExplodeFeature(Head(features)) \o ExplodeLayer(Tail(features))

\* io.explode_multipart_features: [] for None, [the exploded file] otherwise
ExplodeMultipartFeatures(dataset) ==
    IF dataset.fault = "explode" THEN <<>>
    ELSE <<[dataset EXCEPT !.features = ExplodeLayer(dataset.features)]>>

\* ValidateGlobalCrs that accepts every declared reference
ValidateGlobalCrsAnyDeclared(ds) == ds.crs # "none"

\* validation.validate_global_crs: srs is not None and srs.IsSame(wgs84_srs)
ValidateGlobalCrs(ds) == ds.crs = "WGS84"

\* partition_and_process_dataset over the layer of an exploded file: the
\* identifier of a feature is its qa_assistant_id field
RECURSIVE PartitionDataset(_, _, _, _, _, _, _)
PartitionDataset(st, features, i, dataset_stem, fix, simp, identify) ==
    IF i > Len(features) THEN st
    ELSE PartitionDataset(
            PartitionFeature(st, features[i], features[i].id,
                             dataset_stem, fix, simp, identify),
            features, i + 1, dataset_stem, fix, simp, identify)

\* the `stats = {}` of a dataset that was skipped: every count is 'N/A'
NoStatsRow ==
    [total |-> "N/A", valid_large |-> "N/A", review |-> "N/A",
     autofixed |-> "N/A", candidates |-> "N/A"]

\* reports.log_to_summary_report: the row it appends
SummaryRow(name, initial, processing, stats, attr_status, reason) ==
    [name |-> name, initial |-> initial, processing |-> processing,
     stats |-> stats, attr_status |-> attr_status, reason |-> reason]

\* core.py 100-110: the summary row of a partitioned dataset
ProcessedRow(original_name, partition_stats, detailed_rows) ==
    LET status == IF partition_stats.review > 0 \/ partition_stats.candidates > 0
                  THEN "PROCESSED_WITH_ISSUES" ELSE "PROCESSED_CLEAN"
        note_parts ==
            (IF partition_stats.review > 0
             THEN <<<<partition_stats.review, "features for review">>>> ELSE <<>>)
            \o (IF partition_stats.candidates > 0
                THEN <<<<partition_stats.candidates, "small polygons found">>>> ELSE <<>>)
    IN  SummaryRow(original_name, "PASSED_PRECHECK", status, partition_stats,
            SummarizeAttributeStatus(
                [k \in 1..Len(detailed_rows) |-> detailed_rows[k].attribute_status]),
            IF note_parts = <<>> THEN <<<<0, "All features are valid.">>>> ELSE note_parts)

\* the next iteration of a loop of run over a list, or the step after it
NextOf(r, list, after) ==
    IF r.i < Len(list) THEN [r EXCEPT !.i = @ + 1] ELSE [r EXCEPT !.pc = after, !.i = 1]

\* EudrGisQaAssistant(...) was constructed with the default options and the
\* reports initialized; the input directory holds the datasets a.geojson
\* and b.geojson, or one of them, or none, and perhaps a file that is no
\* dataset
InitRun ==
    /\ autofix = TRUE
    /\ simplify = TRUE
    /\ identify_candidates = TRUE
    /\ pc = "run"
    /\ in_layer = <<>>
    /\ part = EmptyPartition
    /\ valid_store = NoStores
    /\ review_store = NoStores
    /\ candidates_store = NoStores
    /\ detailed_report = ReportFile(<<>>)
    /\ req = [r \in Threads |-> Idle]
    /\ pre = [r \in Threads |-> NoSnapshot]
    /\ faults = 0
    /\ summary_report = ReportFile(<<>>)
    /\ audit = NoAudit
    /\ call = NoCall
    /\ tasks = NoTasks
    /\ upload_folder = NoSessions
    /\ worker = NoWorker
    /\ handler = NoHandler
    /\ \E names \in {<<>>, <<StemA>>, <<StemB>>, <<StemA, StemB>>} :
       \E da \in InputDatasets(StemA, MaxInputFeatures) :
       \E db \in InputDatasets(StemB, MaxInputFeatures - Len(da.features)) :
       \E unsupported \in BOOLEAN :
          run = [NoRun EXCEPT
                   !.pc = "start",
                   !.datasets_to_process =
                       [k \in 1..Len(names) |-> IF names[k] = StemA THEN da ELSE db],
                   !.unsupported = unsupported]

\* lines 41-47: nothing to do without a dataset
RunStart ==
    /\ run.pc = "start"
    /\ run' = IF run.datasets_to_process = <<>>
              THEN [run EXCEPT !.pc = "done"]
              ELSE [run EXCEPT !.pc = "inject", !.i = 1]
    /\ UNCHANGED <<callVars, taskVars, partVars, fileVars, req, pre, faults, summary_report, audit>>

\* lines 60-65: one iteration of the ID injection
InjectIds ==
    /\ run.pc = "inject"
    /\ LET dataset_path == run.datasets_to_process[run.i]
           traced == [run EXCEPT !.traced_files = @ \o InjectTraceabilityId(dataset_path)]
       IN  run' = NextOf(traced, run.datasets_to_process, "explode")
    /\ UNCHANGED <<callVars, taskVars, partVars, fileVars, req, pre, faults, summary_report, audit>>

\* lines 68-73: one iteration of the explode loop
Explode ==
    /\ run.pc = "explode"
    /\ run' = IF run.traced_files = <<>>
              THEN [run EXCEPT !.pc = "validate", !.i = 1]
              ELSE NextOf([run EXCEPT !.exploded_files =
                              @ \o ExplodeMultipartFeatures(run.traced_files[run.i])],
                          run.traced_files, "validate")
    /\ UNCHANGED <<callVars, taskVars, partVars, fileVars, req, pre, faults, summary_report, audit>>

\* line 77 with no exploded file: the loop has no iteration
ValidateNothing ==
    /\ run.pc = "validate"
    /\ run.exploded_files = <<>>
    /\ run' = [run EXCEPT !.pc = "report"]
    /\ UNCHANGED <<callVars, taskVars, partVars, fileVars, req, pre, faults, summary_report, audit>>

\* lines 81-83: the exploded file cannot be opened
ValidateUnopened ==
    /\ run.pc = "validate"
    /\ run.exploded_files # <<>>
    /\ run.exploded_files[run.i].fault = "reopen"
    /\ run' = NextOf(run, run.exploded_files, "report")
    /\ UNCHANGED <<callVars, taskVars, partVars, fileVars, req, pre, faults, summary_report, audit>>

\* lines 87-91: the dataset is not in WGS84: it is moved and logged
ValidateWrongEpsg ==
    /\ run.pc = "validate"
    /\ run.exploded_files # <<>>
    /\ LET ds == run.exploded_files[run.i] IN
       /\ ds.fault # "reopen"
       /\ ~ValidateGlobalCrs(ds)
       /\ summary_report' = ReportFile(Append(summary_report.rows,
             SummaryRow(ds.name, "WRONG_EPSG", "SKIPPED", NoStatsRow, <<>>,
                        <<<<4326, "EPSG is not">>>>)))
       /\ run' = NextOf([run EXCEPT !.invalid_global_dir = @ \cup {ds.name}],
                        run.exploded_files, "report")
    /\ UNCHANGED <<callVars, taskVars, partVars, fileVars, req, pre, faults, audit>>

\* lines 93-97: partition_and_process_dataset raises; run has no handler, so
\* the exception leaves run.  CreateDataSource (transformations.py 57-65)
\* is one call that can raise: the files <stem>_review.geojson,
\* <stem>_candidates.geojson and <stem>_valid.geojson are not removed
\* before they are created, and the GeoJSON driver may refuse to write over
\* a file that exists.
ValidateRaises ==
    /\ run.pc = "validate"
    /\ run.exploded_files # <<>>
    /\ LET ds == run.exploded_files[run.i] IN
       /\ ds.fault = "partition" \/ review_store[ds.stem].exists
       /\ ds.fault # "reopen"
       /\ ValidateGlobalCrs(ds)
    /\ run' = [run EXCEPT !.pc = "raised"]
    /\ UNCHANGED <<callVars, taskVars, partVars, fileVars, req, pre, faults, summary_report, audit>>

\* io.delete_intermediate_components: glob(f'{processed_path.stem}.*') takes
\* every input file with the stem, whatever its suffix
StemComponents(stem) ==
    {run.datasets_to_process[k].name :
        k \in {j \in 1..Len(run.datasets_to_process) :
                  run.datasets_to_process[j].stem = stem}}

\* lines 93-112: the dataset is partitioned, its rows kept, its summary row
\* written and its intermediate and input files deleted
ValidateDataset ==
    /\ run.pc = "validate"
    /\ run.exploded_files # <<>>
    /\ LET ds == run.exploded_files[run.i]
           p == PartitionDataset(EmptyPartition, ds.features, 1, ds.stem,
                                 autofix, simplify, identify_candidates)
       IN  /\ ds.fault \notin {"reopen", "partition"}
           /\ ValidateGlobalCrs(ds)
           /\ valid_store' = [valid_store EXCEPT ![ds.stem] = StoreFile(p.valid)]
           /\ review_store' = [review_store EXCEPT ![ds.stem] = StoreFile(p.review)]
           /\ candidates_store' =
                 [candidates_store EXCEPT ![ds.stem] = StoreFile(p.candidates)]
           /\ summary_report' = ReportFile(Append(summary_report.rows,
                 ProcessedRow(ds.name, p.stats, p.detailed_rows)))
           /\ run' = NextOf([run EXCEPT !.all_detailed_rows = @ \o p.detailed_rows,
                                        !.deleted = @ \cup StemComponents(ds.stem)],
                            run.exploded_files, "report")
    /\ UNCHANGED <<callVars, taskVars, partVars, detailed_report, req, pre, faults, audit>>

\* lines 114-118: the detailed rows are appended to the detailed report and
\* the files that are no datasets are moved and logged
WriteReports ==
    /\ run.pc = "report"
    /\ detailed_report' =
          IF run.all_detailed_rows = <<>> THEN detailed_report
          ELSE ReportFile(detailed_report.rows \o run.all_detailed_rows)
    /\ summary_report' =
          IF run.unsupported
          THEN ReportFile(Append(summary_report.rows,
                  SummaryRow(<<"notes.txt">>, "UNSUPPORTED", "SKIPPED", NoStatsRow, <<>>,
                             <<<<0, "Not a trigger GIS file">>>>)))
          ELSE summary_report
    /\ run' = [run EXCEPT !.pc = "done", !.unsupported = FALSE]
    /\ UNCHANGED <<callVars, taskVars, partVars, valid_store, review_store, candidates_store,
                   req, pre, faults, audit>>

NextRun ==
    \/ RunStart
    \/ InjectIds
    \/ Explode
    \/ ValidateNothing
    \/ ValidateUnopened
    \/ ValidateWrongEpsg
    \/ ValidateRaises
    \/ ValidateDataset
    \/ WriteReports

\* one run of the assistant over an input directory
SpecRun == InitRun /\ [][NextRun]_vars

\* ------------------------------------------ a run over two dataset files

\* the input directory holds a.geojson and a shapefile, a.shp or b.shp
InitTwoDatasets ==
    /\ autofix = TRUE
    /\ simplify = TRUE
    /\ identify_candidates = TRUE
    /\ pc = "run"
    /\ in_layer = <<>>
    /\ part = EmptyPartition
    /\ valid_store = NoStores
    /\ review_store = NoStores
    /\ candidates_store = NoStores
    /\ detailed_report = ReportFile(<<>>)
    /\ req = [r \in Threads |-> Idle]
    /\ pre = [r \in Threads |-> NoSnapshot]
    /\ faults = 0
    /\ summary_report = ReportFile(<<>>)
    /\ audit = NoAudit
    /\ call = NoCall
    /\ tasks = NoTasks
    /\ upload_folder = NoSessions
    /\ worker = NoWorker
    /\ handler = NoHandler
    /\ \E da \in InputDatasets(StemA, MaxInputFeatures) :
       \E stem \in Stems :
       \E db \in InputDatasets(stem, MaxInputFeatures - Len(da.features)) :
          run = [NoRun EXCEPT
                   !.pc = "start",
                   !.datasets_to_process =
                       <<da, Shapefile(db.stem, db.crs, db.fault, db.features)>>]

\* one run of the assistant over the two files
SpecTwoDatasets == InitTwoDatasets /\ [][NextRun]_vars

\* ------------------------------------------ the attribute audit of a layer

\* features of the audited layer
MaxAudited == 2

ProductionPlaceSamples == {Absent, StrValue(<<"x">>)}
ProducerNameSamples == {Absent, Null}
ProducerCountrySamples ==
    {Absent, Null, StrValue(<<"f", "r">>), StrValue(<<"F", "R">>),
     StrValue(<<"z", "z">>), StrValue(<<"F", "R", "A">>)}
AreaSamples == {Absent, NumValue(<<"4", ".", "0">>), StrValue(<<"4">>)}

\* the optional fields of a feature of the layer
FieldSamples ==
    [ProductionPlace : ProductionPlaceSamples, ProducerName : ProducerNameSamples,
     ProducerCountry : ProducerCountrySamples, Area : AreaSamples]

\* a layer is about to be read by partition_and_process_dataset
InitAttributes ==
    /\ autofix = TRUE
    /\ simplify = TRUE
    /\ identify_candidates = TRUE
    /\ pc = "audit"
    /\ in_layer = <<>>
    /\ part = EmptyPartition
    /\ valid_store = NoStores
    /\ review_store = NoStores
    /\ candidates_store = NoStores
    /\ detailed_report = ReportFile(<<>>)
    /\ req = [r \in Threads |-> Idle]
    /\ pre = [r \in Threads |-> NoSnapshot]
    /\ faults = 0
    /\ run = NoRun
    /\ summary_report = ReportFile(<<>>)
    /\ audit = [NoAudit EXCEPT !.pc = "check"]
    /\ call = NoCall
    /\ tasks = NoTasks
    /\ upload_folder = NoSessions
    /\ worker = NoWorker
    /\ handler = NoHandler

\* transformations.py line 77, for the next feature of the layer
CheckFeature ==
    /\ audit.pc = "check"
    /\ Len(audit.layer) < MaxAudited
    /\ \E fields \in FieldSamples :
          audit' = [audit EXCEPT
                      !.layer = Append(@, fields),
                      !.notes = Append(@, CheckOptionalProperties(fields))]
    /\ UNCHANGED <<callVars, taskVars, partVars, fileVars, req, pre, faults, run, summary_report>>

\* core.py line 107, over the attribute statuses of the layer's rows
Summarize ==
    /\ audit.pc = "check"
    /\ audit' = [audit EXCEPT !.pc = "done",
                              !.summary = SummarizeAttributeStatus(audit.notes)]
    /\ UNCHANGED <<callVars, taskVars, partVars, fileVars, req, pre, faults, run, summary_report>>

NextAttributes == CheckFeature \/ Summarize

\* the attribute audit of one layer
SpecAttributes == InitAttributes /\ [][NextAttributes]_vars

\* ------------------------------- validate_and_fix_geometry, call by call

\* rings of a polygon, parts of a multi-geometry
MaxRings == 2

\* the values of geom.GetGeometryType(): point, line string, polygon,
\* multi-point, multi-line-string, multi-polygon and geometry collection,
\* each as 2D, with M (+2000), with Z and M (+3000) and with Z (2.5D, bit
\* 0x80000000: a negative number in the Python binding)
TypeCodes ==
    {base + flag : base \in 1..7, flag \in {0, 2000, 3000, -2147483647 - 1}}

\* the geometries a layer can hand to the classifier: every combination of
\* the library's answers to the calls of lines 156-181
ClassifyGeoms ==
    {NoGeom, EmptyGeom} \cup
    {[Geom(code, valid, buf, rings, verts, "ok", TRUE, 100, "ok")
        EXCEPT !.fixed_rings = fixed_rings, !.fixed_verts = fixed_verts] :
        code \in TypeCodes, valid \in BOOLEAN,
        buf \in {"none", "empty", "invalid", "valid"},
        rings \in 1..MaxRings, verts \in BOOLEAN,
        fixed_rings \in 1..MaxRings, fixed_verts \in BOOLEAN}

\* partition_and_process_dataset is about to call
\* validate_and_fix_geometry(geom, autofix, simplify) (line 79) on a feature
InitClassify ==
    /\ autofix \in BOOLEAN
    /\ simplify \in BOOLEAN
    /\ identify_candidates = TRUE
    /\ pc = "call"
    /\ in_layer = <<>>
    /\ part = EmptyPartition
    /\ valid_store = NoStores
    /\ review_store = NoStores
    /\ candidates_store = NoStores
    /\ detailed_report = ReportFile(<<>>)
    /\ req = [r \in Threads |-> Idle]
    /\ pre = [r \in Threads |-> NoSnapshot]
    /\ faults = 0
    /\ run = NoRun
    /\ summary_report = ReportFile(<<>>)
    /\ audit = NoAudit
    /\ \E geom \in ClassifyGeoms : call = [pc |-> "validate", geom |-> geom]
    /\ tasks = NoTasks
    /\ upload_folder = NoSessions
    /\ worker = NoWorker
    /\ handler = NoHandler

\* line 79: is_valid, reason, action_taken = validate_and_fix_geometry(...)
Classify ==
    /\ call.pc = "validate"
    /\ call' = [pc |-> "validated", geom |-> call.geom,
                verdict |-> ValidateAndFixGeometry(call.geom, autofix, simplify)]
    /\ UNCHANGED <<taskVars, runVars, partVars, fileVars, req, pre, faults>>

\* lines 101 and 124-126 for an accepted geometry whose area is known: the
\* candidacy test
CheckCandidacy ==
    /\ call.pc = "validated"
    /\ call.verdict.is_valid
    /\ GetAreaInHectares(call.geom).ok
    /\ call' = [call EXCEPT !.pc = "bucketed"] @@
               [candidate |-> IsCandidate(identify_candidates, call.geom,
                                          GetAreaInHectares(call.geom).ha)]
    /\ UNCHANGED <<taskVars, runVars, partVars, fileVars, req, pre, faults>>

NextClassify == Classify \/ CheckCandidacy

\* the classification of one feature
SpecClassify == InitClassify /\ [][NextClassify]_vars

\* ----------------------------------- an identifier, from its dataset on

\* characters of a dataset's file stem
MaxStemLen == 4

\* file stems: a letter, then letters, "_" and "-" (what secure_filename
\* leaves of an uploaded name, main.py line 68)
DatasetStems ==
    {<<first>> \o rest :
        first \in {"a", "p"},
        rest \in UNION {[1..k -> {"a", "p", "_", "-"}] : k \in 0..(MaxStemLen - 1)}}

\* a dataset with the stem is about to get its identifiers
InitStem ==
    /\ autofix = TRUE
    /\ simplify = TRUE
    /\ identify_candidates = TRUE
    /\ pc = "call"
    /\ in_layer = <<>>
    /\ part = EmptyPartition
    /\ valid_store = NoStores
    /\ review_store = NoStores
    /\ candidates_store = NoStores
    /\ detailed_report = ReportFile(<<>>)
    /\ req = [r \in Threads |-> Idle]
    /\ pre = [r \in Threads |-> NoSnapshot]
    /\ faults = 0
    /\ run = NoRun
    /\ summary_report = ReportFile(<<>>)
    /\ audit = NoAudit
    /\ \E stem \in DatasetStems : call = [pc |-> "inject", stem |-> stem]
    /\ tasks = NoTasks
    /\ upload_folder = NoSessions
    /\ worker = NoWorker
    /\ handler = NoHandler

\* io.py line 33, for feature i of the dataset
InjectId ==
    /\ call.pc = "inject"
    /\ \E i \in 0..1 :
          call' = [pc |-> "explode", stem |-> call.stem,
                   qa_id |-> InjectedId(call.stem, i)]
    /\ UNCHANGED <<taskVars, runVars, partVars, fileVars, req, pre, faults>>

\* io.py line 67 for part i of a multi-polygon, line 70 for a polygon
ExplodeId ==
    /\ call.pc = "explode"
    /\ \/ \E i \in 0..1 :
             call' = [call EXCEPT !.pc = "derive", !.qa_id = ExplodedId(@, i)]
       \/ call' = [call EXCEPT !.pc = "derive"]
    /\ UNCHANGED <<taskVars, runVars, partVars, fileVars, req, pre, faults>>

\* transformations.py line 199, for the identifier in a request
DeriveStem ==
    /\ call.pc = "derive"
    /\ call' = [call EXCEPT !.pc = "derived"] @@
               [original_stem |-> OriginalStem(call.qa_id)]
    /\ UNCHANGED <<taskVars, runVars, partVars, fileVars, req, pre, faults>>

NextStem == InjectId \/ ExplodeId \/ DeriveStem

\* one identifier from its injection to its use in a conversion request
SpecStem == InitStem /\ [][NextStem]_vars

\* ----------------------------------------- get_area_in_hectares, one call

\* what osr can do with SetUTM(utm_zone, ...): zones 1 to 60 are set; for
\* any other zone the library either sets a projection all the same, or
\* returns an error that the code does not look at (the target stays
\* geographic), or raises that error (exceptions are on, io.py line 12)
SetUtmOutcomes(utm_zone) ==
    IF utm_zone \in 1..60 THEN {"ok"} ELSE {"ok", "ignored", "raises"}

\* the geometries whose area is asked for: no geometry, an empty one, one
\* without a centroid, and those with a centroid at whole degrees, in and
\* just outside [-180,180] x [-90,90]
AreaGeoms ==
    {NoGeom, EmptyGeom,
     Geom(wkbPolygon, TRUE, "valid", 1, TRUE, "none", TRUE, 100, "ok")} \cup
    UNION {{[Geom(wkbPolygon, TRUE, "valid", 1, TRUE, "ok", transform, 100, "ok")
               EXCEPT !.lon = lon, !.lat = lat, !.setutm = setutm] :
               setutm \in SetUtmOutcomes(UtmZone(lon))} :
             lon \in -181..181, lat \in {-91, -90, -1, 0, 1, 90, 91},
             transform \in BOOLEAN}

\* partition_and_process_dataset is about to call get_area_in_hectares(geom)
\* (line 101)
InitArea ==
    /\ autofix = TRUE
    /\ simplify = TRUE
    /\ identify_candidates = TRUE
    /\ pc = "call"
    /\ in_layer = <<>>
    /\ part = EmptyPartition
    /\ valid_store = NoStores
    /\ review_store = NoStores
    /\ candidates_store = NoStores
    /\ detailed_report = ReportFile(<<>>)
    /\ req = [r \in Threads |-> Idle]
    /\ pre = [r \in Threads |-> NoSnapshot]
    /\ faults = 0
    /\ run = NoRun
    /\ summary_report = ReportFile(<<>>)
    /\ audit = NoAudit
    /\ \E geom \in AreaGeoms : call = [pc |-> "area", geom |-> geom]
    /\ tasks = NoTasks
    /\ upload_folder = NoSessions
    /\ worker = NoWorker
    /\ handler = NoHandler

\* line 101: area_ha = get_area_in_hectares(geom)
ComputeArea ==
    /\ call.pc = "area"
    /\ LET result == GetAreaInHectares(call.geom) IN
       call' = [pc |-> IF result.raised THEN "raised" ELSE "measured",
                geom |-> call.geom, result |-> result]
    /\ UNCHANGED <<taskVars, runVars, partVars, fileVars, req, pre, faults>>

NextArea == ComputeArea

\* the area of one geometry
SpecArea == InitArea /\ [][NextArea]_vars

\* ------------------------------------------- the task of a session (main.py)
\* One session: /process has stored the uploaded files, put the session in
\* the registry and started the thread of run_gis_task; /cleanup and /status
\* requests for the session arrive while the thread runs.  A step is the
\* code up to and including one access to the registry or to the session
\* directory.

\* dataset files in the input directory of the session
MaxDatasets == 2

\* str(uuid.uuid4()) of the session (line 60)
SessionId == "s"

\* lines 73-79: the entry of a submitted task (the message is left out)
NewTask == [progress |-> 0, step |-> "Preparing...", finished |-> FALSE, error |-> FALSE]

\* dict.update: the keys of status replace those of the entry
Updated(entry, status) ==
    [k \in DOMAIN entry |-> IF k \in DOMAIN status THEN status[k] ELSE entry[k]]

\* core.py 49-57: the progress that update_step_progress reports for
\* iteration i (from 0) of a loop over len items, in the range from start to
\* end: int(start + ((i / len) * 100) * (end - start) / 100)
StepProgress(start, end, i, len) == start + (i * (end - start)) \div len

\* the status dicts that EudrGisQaAssistant.run passes to update_progress,
\* in order, when n datasets are found, t of them get identifiers, e of
\* those are exploded, and the call returns: core.py lines 46, 62, 70, 75,
\* 79, 114 and 118
RunUpdates(n, t, e) ==
    IF n = 0 THEN <<[progress |-> 100, step |-> "Completed"]>>
    ELSE [i \in 1..n |-> [progress |-> StepProgress(0, 10, i - 1, n),
                          step |-> "Step 1/5: Adding IDs"]]
         \o [i \in 1..t |-> [progress |-> StepProgress(10, 20, i - 1, t),
                             step |-> "Step 2/5: Exploding Features"]]
         \o <<[progress |-> StepProgress(20, 80, 0, 1), step |-> "Step 3/5: Validating"]>>
         \o [i \in 1..e |-> [progress |-> StepProgress(20, 80, i - 1, e),
                             step |-> "Step 3/5: Validating"]]
         \o <<[progress |-> StepProgress(80, 90, 50, 100), step |-> "Step 4/5: Reporting"],
              [progress |-> StepProgress(90, 95, 100, 100), step |-> "Step 5/5: Complete"]>>

\* the same when partition_and_process_dataset raises for exploded file
\* number raise_at: the updates up to that of line 79 for the file
RunUpdatesUntil(n, t, e, raise_at) ==
    SubSeq(RunUpdates(n, t, e), 1, n + t + 1 + raise_at)

\* main.py lines 272-276
FinalizingStatus == [progress |-> 95, step |-> "Step 5/5: Finalizing"]

\* main.py lines 281-287
CompleteStatus == [finished |-> TRUE, progress |-> 100, step |-> "Completed", error |-> FALSE]

\* main.py lines 291-297
ErrorStatus == [progress |-> 100, error |-> TRUE, finished |-> TRUE, step |-> "Error"]

\* no task_status.json in the session directory
NoStatusFile == [exists |-> FALSE]

\* data_service.save_task_status: the session directory is made if it is
\* not there, and task_status.json written
SaveTaskStatus(folder, status) ==
    IF SessionId \in DOMAIN folder
    THEN [folder EXCEPT ![SessionId].status_file = [exists |-> TRUE, status |-> status]]
    ELSE (SessionId :> [input |-> FALSE,
                        status_file |-> [exists |-> TRUE, status |-> status]])

\* the session was submitted (main.py 60-90): n dataset files are in the
\* input directory; t, e and raise_at say how far each gets in the run, and
\* archive_fails whether consolidate_features or create_zip_archive raises
InitTask ==
    /\ autofix = TRUE
    /\ simplify = TRUE
    /\ identify_candidates = TRUE
    /\ pc = "task"
    /\ in_layer = <<>>
    /\ part = EmptyPartition
    /\ valid_store = NoStores
    /\ review_store = NoStores
    /\ candidates_store = NoStores
    /\ detailed_report = ReportFile(<<>>)
    /\ req = [r \in Threads |-> Idle]
    /\ pre = [r \in Threads |-> NoSnapshot]
    /\ faults = 0
    /\ run = NoRun
    /\ summary_report = ReportFile(<<>>)
    /\ audit = NoAudit
    /\ call = NoCall
    /\ tasks = (SessionId :> NewTask)
    /\ upload_folder = (SessionId :> [input |-> TRUE, status_file |-> NoStatusFile])
    /\ \E n \in 0..MaxDatasets : \E t \in 0..n : \E e \in 0..t : \E raise_at \in 0..e :
       \E archive_fails \in BOOLEAN :
          worker = [pc |-> "start", phase |-> "run",
                    updates |-> IF raise_at = 0
                                THEN RunUpdates(n, t, e) \o <<FinalizingStatus>>
                                ELSE RunUpdatesUntil(n, t, e, raise_at),
                    raises |-> raise_at # 0,
                    archive_fails |-> archive_fails,
                    status |-> NewTask,
                    progress_log |-> <<0>>]
    /\ handler = [pc |-> "idle", cleaned |-> FALSE]

\* an exception in the thread: the handler of line 290 takes it, unless it
\* is raised in that handler, where nothing catches it
Raise(w) ==
    IF w.phase = "except" THEN [w EXCEPT !.pc = "crashed"]
    ELSE [w EXCEPT !.phase = "except", !.pc = "update"]

\* the status dict of the update the thread is at
CurrentStatus(w) ==
    IF w.phase = "run" THEN Head(w.updates)
    ELSE IF w.phase = "finish" THEN CompleteStatus
    ELSE ErrorStatus

\* lines 265-270: the dated output directory is made, with its parents, and
\* run lists the input directory (core.py line 41)
StartTask ==
    /\ worker.pc = "start"
    /\ upload_folder' =
          IF SessionId \in DOMAIN upload_folder THEN upload_folder
          ELSE (SessionId :> [input |-> FALSE, status_file |-> NoStatusFile])
    /\ worker' = IF SessionId \in DOMAIN upload_folder /\ upload_folder[SessionId].input
                 THEN [worker EXCEPT !.pc = "update"]
                 ELSE Raise(worker)
    /\ UNCHANGED <<callVars, runVars, partVars, fileVars, req, pre, faults, tasks, handler>>

\* tasks[session_id].update(status): lines 260, 281 and 291
UpdateTask ==
    /\ worker.pc = "update"
    /\ IF SessionId \in DOMAIN tasks
       THEN /\ tasks' = [tasks EXCEPT ![SessionId] = Updated(@, CurrentStatus(worker))]
            /\ worker' = [worker EXCEPT
                            !.pc = "lookup",
                            !.progress_log = Append(@, CurrentStatus(worker).progress)]
       ELSE /\ worker' = Raise(worker)
            /\ UNCHANGED tasks
    /\ UNCHANGED <<callVars, runVars, partVars, fileVars, req, pre, faults, upload_folder, handler>>

\* the argument tasks[session_id] of save_task_status: lines 261, 288, 298
LookupTask ==
    /\ worker.pc = "lookup"
    /\ worker' = IF SessionId \in DOMAIN tasks
                 THEN [worker EXCEPT !.pc = "save", !.status = tasks[SessionId]]
                 ELSE Raise(worker)
    /\ UNCHANGED <<callVars, runVars, partVars, fileVars, req, pre, faults, tasks,
                   upload_folder, handler>>

\* data_service.save_task_status(session_id, status, ...), and what follows
\* the update: the next update of run, the exception of run, the archive,
\* the end of the thread; after the error update, lines 300-306 remove the
\* input directory
SaveTask ==
    /\ worker.pc = "save"
    /\ LET saved == SaveTaskStatus(upload_folder, worker.status) IN
       IF worker.phase = "run"
       THEN /\ upload_folder' = saved
            /\ worker' =
                  IF Len(worker.updates) > 1
                  THEN [worker EXCEPT !.pc = "update", !.updates = Tail(@)]
                  ELSE IF worker.raises
                  THEN Raise([worker EXCEPT !.updates = <<>>])
                  ELSE [worker EXCEPT !.pc = "archive", !.updates = <<>>]
       ELSE IF worker.phase = "finish"
       THEN /\ upload_folder' = saved
            /\ worker' = [worker EXCEPT !.pc = "done"]
       ELSE /\ upload_folder' = [saved EXCEPT ![SessionId].input = FALSE]
            /\ worker' = [worker EXCEPT !.pc = "done"]
    /\ UNCHANGED <<callVars, runVars, partVars, fileVars, req, pre, faults, tasks, handler>>

\* lines 278-279: consolidate_features and create_zip_archive, which raise
\* when the session directory is not there
Archive ==
    /\ worker.pc = "archive"
    /\ worker' = IF SessionId \in DOMAIN upload_folder /\ ~worker.archive_fails
                 THEN [worker EXCEPT !.phase = "finish", !.pc = "update"]
                 ELSE Raise(worker)
    /\ UNCHANGED <<callVars, runVars, partVars, fileVars, req, pre, faults, tasks,
                   upload_folder, handler>>

\* a request POST /cleanup/<session_id> or GET /status/<session_id> arrives
StartRequest ==
    /\ handler.pc = "idle"
    /\ \E first \in {"rmtree", "get"} : handler' = [handler EXCEPT !.pc = first]
    /\ UNCHANGED <<callVars, runVars, partVars, fileVars, req, pre, faults, tasks,
                   upload_folder, worker>>

\* cleanup_session_data, lines 245-247: the session directory is removed
CleanupRmtree ==
    /\ handler.pc = "rmtree"
    /\ upload_folder' = <<>>
    /\ handler' = [handler EXCEPT !.pc = "del"]
    /\ UNCHANGED <<callVars, runVars, partVars, fileVars, req, pre, faults, tasks, worker>>

\* cleanup_session_data, lines 249-252: the registry entry is deleted and
\* the request answers success
CleanupDel ==
    /\ handler.pc = "del"
    /\ tasks' = <<>>
    /\ handler' = [handler EXCEPT !.pc = "idle", !.cleaned = TRUE]
    /\ UNCHANGED <<callVars, runVars, partVars, fileVars, req, pre, faults, upload_folder,
                   worker>>

\* task_status, lines 102-103: status = tasks.get(session_id)
StatusGet ==
    /\ handler.pc = "get"
    /\ handler' = [handler EXCEPT !.pc = IF SessionId \in DOMAIN tasks
                                         THEN "idle" ELSE "load"]
    /\ UNCHANGED <<callVars, runVars, partVars, fileVars, req, pre, faults, tasks,
                   upload_folder, worker>>

\* task_status, lines 104-108: the status is loaded from task_status.json
\* and put in the registry, or the request answers 404
StatusLoad ==
    /\ handler.pc = "load"
    /\ tasks' = IF /\ SessionId \in DOMAIN upload_folder
                   /\ upload_folder[SessionId].status_file.exists
                THEN SessionId :> upload_folder[SessionId].status_file.status
                ELSE tasks
    /\ handler' = [handler EXCEPT !.pc = "idle"]
    /\ UNCHANGED <<callVars, runVars, partVars, fileVars, req, pre, faults, upload_folder,
                   worker>>

NextTask ==
    \/ StartTask
    \/ UpdateTask
    \/ LookupTask
    \/ SaveTask
    \/ Archive
    \/ StartRequest
    \/ CleanupRmtree
    \/ CleanupDel
    \/ StatusGet
    \/ StatusLoad

\* the task of one session and the requests for it
SpecTask == InitTask /\ [][NextTask]_vars

\* ------------------------------------------------ claims: the partitioning

\* the identifiers of the features of a layer or store
Ids(features) == {features[i].id : i \in 1..Len(features)}

\* the number of detailed rows with a final status
CountStatus(rows, status) ==
    Cardinality({i \in 1..Len(rows) : rows[i].final_status = status})

TerminalStates == {"Valid", "Requires Review", "Candidate for Conversion"}

C2_CandidateIffSmallPolygon ==
    \A i \in 1..Len(in_layer) :
        LET geom == in_layer[i].feature.geom
            v == ValidateAndFixGeometry(geom, autofix, simplify)
            area == GetAreaInHectares(geom)
            row == part.detailed_rows[i]
            small == /\ identify_candidates
                     /\ geom.gtype % 256 = 3
                     /\ area.ha < 400
        IN  (v.is_valid /\ area.ok) =>
              /\ small => /\ row.final_status = "Candidate for Conversion"
                          /\ row.qa_assistant_id \in Ids(part.candidates)
                          /\ row.qa_assistant_id \notin Ids(part.valid)
              /\ ~small => /\ row.final_status = "Valid"
                           /\ row.qa_assistant_id \in Ids(part.valid)
                           /\ row.qa_assistant_id \notin Ids(part.candidates)

\* a polygon of exactly 4.0 ha is Valid beside a smaller one that is a
\* Candidate
C2_Witness ==
    /\ identify_candidates
    /\ \E i, j \in 1..Len(in_layer) :
          /\ in_layer[i].feature.geom.gtype = wkbPolygon
          /\ in_layer[i].feature.geom.area = MIN_AREA_HA_FOR_POLYGON
          /\ part.detailed_rows[i].final_status = "Valid"
          /\ in_layer[j].feature.geom.area < MIN_AREA_HA_FOR_POLYGON
          /\ part.detailed_rows[j].final_status = "Candidate for Conversion"

\* the feature of a store with an identifier
StoredAs(features, qa_id) ==
    {features[i] : i \in {k \in 1..Len(features) : features[k].id = qa_id}}

\* C3: a feature the classifier rejects is in the review store only, with
\* the classifier's reason, and a feature it accepts whose area cannot be
\* calculated is in the review store only, with the reason "Could not
\* calculate area"; the row of either says Requires Review with that reason.
C3_RejectedGoesToReviewOnly ==
    \A i \in 1..Len(in_layer) :
        LET geom == in_layer[i].feature.geom
            qa_id == in_layer[i].id
            v == ValidateAndFixGeometry(geom, autofix, simplify)
            area == GetAreaInHectares(geom)
            row == part.detailed_rows[i]
            reason == IF ~v.is_valid THEN v.reason ELSE "Could not calculate area"
        IN  (~v.is_valid \/ ~area.ok) =>
              /\ row.final_status = "Requires Review"
              /\ row.reason_notes = reason
              /\ Cardinality(StoredAs(part.review, qa_id)) = 1
              /\ \A f \in StoredAs(part.review, qa_id) : f.qa_issue = reason
              /\ qa_id \notin Ids(part.valid)
              /\ qa_id \notin Ids(part.candidates)

\* a rejected feature and one whose area could not be calculated, both in
\* review
C3_Witness ==
    \E i, j \in 1..Len(part.review) :
        /\ part.review[i].qa_issue = "Could not calculate area"
        /\ part.review[j].qa_issue \in {"Invalid geometry", "Invalid geometry (unfixable)",
                                        "Polygon with holes not supported"}

\* C4: the geometry stored in the valid or the candidate store for a feature
\* whose action is Auto-fixed (Simplified) is the repaired (simplified)
\* geometry, never the input geometry.
C4_StoredGeometryIsRepaired ==
    \A i \in 1..Len(part.detailed_rows) :
        LET row == part.detailed_rows[i]
            stored == StoredAs(part.valid, row.qa_assistant_id)
                        \cup StoredAs(part.candidates, row.qa_assistant_id)
        IN  \A f \in stored :
              /\ row.action_taken = "Auto-fixed" => f.geom.ver = "repaired"
              /\ row.action_taken = "Simplified" => f.geom.ver = "simplified"

\* -------------------------------------------------- claims: the conversion

\* the identifiers of the features of all the files of a store
AllIds(store) == UNION {Ids(store[s].features) : s \in DOMAIN store}

\* no conversion call is under way
Quiet == \A r \in Threads : req[r].pc \in {"idle", "done"}

\* the identifiers of a list
Elems(xs) == {xs[i] : i \in 1..Len(xs)}

\* a is the beginning of b
IsPrefix(a, b) == Len(a) <= Len(b) /\ SubSeq(b, 1, Len(a)) = a

\* C5: a call that has returned reports in failed_ids every requested
\* identifier that was in no candidate store when it started, and counts
\* none of them in converted_count.
C5_UnknownIdsAreFailed ==
    \A r \in Threads :
        LET q == req[r]
            known == Elems(q.qa_ids) \cap AllIds(pre[r].candidates)
        IN  q.pc = "done" =>
              /\ \A id \in Elems(q.qa_ids) \ known : In(id, q.failed_ids)
              /\ q.converted_count <= Cardinality(known)

\* C6: between sequential fault-free calls, every identifier the partition
\* put in the valid or the candidate store is in exactly one of the two; a
\* call that has returned has left the features of the valid store in place
\* and unaltered, has moved each requested candidate it does not report as
\* failed to the valid store, and has left every candidate it was not asked
\* for where it was.
C6_EachFeatureInOneStore ==
    /\ Quiet =>
         \A id \in Elems(RowIds(detailed_report.rows)) \ AllIds(review_store) :
            (id \in AllIds(valid_store)) # (id \in AllIds(candidates_store))
    /\ \A r \in Threads :
         LET q == req[r] IN
         q.pc = "done" =>
           \A s \in Stems :
             LET was == pre[r].candidates[s].features IN
             /\ IsPrefix(pre[r].valid[s].features, valid_store[s].features)
             /\ \A i \in 1..Len(was) :
                  IF In(was[i].id, q.qa_ids) /\ ~In(was[i].id, q.failed_ids)
                  THEN /\ was[i].id \in Ids(valid_store[s].features)
                       /\ was[i].id \notin Ids(candidates_store[s].features)
                  ELSE /\ was[i] \in StoredAs(candidates_store[s].features, was[i].id)
                       /\ was[i].id \notin Ids(valid_store[s].features)

\* a call has returned after it moved a candidate to a valid store that had
\* a feature, and left another candidate behind
C6_Witness ==
    \E r \in Threads : \E s \in Stems :
        /\ req[r].pc = "done"
        /\ req[r].converted_count >= 1
        /\ pre[r].valid[s].features # <<>>
        /\ Len(valid_store[s].features) > Len(pre[r].valid[s].features)
        /\ candidates_store[s].features # <<>>

\* C7: once two concurrent requests for two different candidates of one
\* dataset have both returned, both features are in the valid store and
\* neither is in the candidate store.
C7_ConcurrentConversionsBothLand ==
    \A s \in Stems :
        LET x == req[1].qa_ids[1]
            y == req[2].qa_ids[1]
            convertible(id, r) ==
                \E f \in StoredAs(pre[r].candidates[s].features, id) : Convertible(f)
        IN  ( /\ req[1].pc = "done" /\ req[2].pc = "done"
              /\ x # y
              /\ convertible(x, 1) /\ convertible(y, 1)
              /\ convertible(x, 2) /\ convertible(y, 2) )
            => /\ {x, y} \subseteq Ids(valid_store[s].features)
               /\ {x, y} \cap Ids(candidates_store[s].features) = {}

\* C8: when a store write of a dataset group has failed during a call, then
\* after the call no identifier is in both stores of the group, and every
\* identifier of the group in failed_ids is still in the candidate store
\* and not in the valid store.
C8_StoresConsistentAfterWriteFailure ==
    \A r \in Threads :
        LET q == req[r] IN
        q.pc = "done" =>
          \A s \in q.write_failed :
            /\ Ids(valid_store[s].features) \cap Ids(candidates_store[s].features) = {}
            /\ \A id \in Elems(q.failed_ids) \cap Ids(pre[r].candidates[s].features) :
                  /\ id \in Ids(candidates_store[s].features)
                  /\ id \notin Ids(valid_store[s].features)

\* C9: after a call has returned, every row of the detailed report whose
\* identifier the call moved from the candidate store to the valid store
\* says Valid, Converted to Point.
C9_ConvertedRowsAreValid ==
    \A r \in Threads :
        LET q == req[r]
            moved == {id \in Elems(q.qa_ids) :
                        /\ id \in AllIds(pre[r].candidates)
                        /\ id \notin AllIds(candidates_store)
                        /\ id \in AllIds(valid_store)}
            rows == detailed_report.rows
        IN  q.pc = "done" =>
              \A id \in moved :
                /\ \E i \in 1..Len(rows) : rows[i].qa_assistant_id = id
                /\ \A i \in 1..Len(rows) :
                      rows[i].qa_assistant_id = id =>
                        /\ rows[i].final_status = "Valid"
                        /\ rows[i].action_taken = "Converted to Point"

\* a call has returned that moved a candidate and reported another as failed
C9_Witness ==
    \E r \in Threads :
        /\ req[r].pc = "done"
        /\ req[r].converted_count >= 1
        /\ req[r].failed_ids # <<>>
        /\ \E i \in 1..Len(detailed_report.rows) :
              /\ detailed_report.rows[i].action_taken = "Converted to Point"
              /\ detailed_report.rows[i].qa_assistant_id \in AllIds(valid_store)

\* C10: between calls, a row of the detailed report says Valid only if its
\* feature is in the valid store, Candidate for Conversion only if it is in
\* the candidate store, and Requires Review only if it is in the review
\* store.
C10_ReportAgreesWithStores ==
    Quiet =>
      \A i \in 1..Len(detailed_report.rows) :
        LET row == detailed_report.rows[i] IN
        /\ row.final_status = "Valid" =>
              row.qa_assistant_id \in AllIds(valid_store)
        /\ row.final_status = "Candidate for Conversion" =>
              row.qa_assistant_id \in AllIds(candidates_store)
        /\ row.final_status = "Requires Review" =>
              row.qa_assistant_id \in AllIds(review_store)

\* ---------------------------------------------------------- claims: the run

\* the exploded files the validation loop of run has gone past
Validated ==
    IF run.pc \in {"report", "done"} THEN 1..Len(run.exploded_files)
    ELSE IF run.pc \in {"validate", "raised"} THEN 1..(run.i - 1)
    ELSE {}

\* the rows of a report for a dataset file
RowsOf(rows, field, name) == {k \in 1..Len(rows) : rows[k][field] = name}

\* C11: a dataset whose declared spatial reference is missing or is not the
\* WGS84 reference, once the validation loop has gone past it, has exactly
\* one summary row, which says WRONG_EPSG and SKIPPED; none of its features
\* has a detailed row, and no valid, review or candidate store exists for it.
C11_WrongCrsIsRejectedUnpartitioned ==
    \A k \in Validated :
        LET ds == run.exploded_files[k]
            mine == RowsOf(summary_report.rows, "name", ds.name)
        IN  (ds.fault # "reopen" /\ ds.crs \in {"none", "other"}) =>
              /\ Cardinality(mine) = 1
              /\ \A m \in mine : /\ summary_report.rows[m].initial = "WRONG_EPSG"
                                 /\ summary_report.rows[m].processing = "SKIPPED"
              /\ RowsOf(run.all_detailed_rows, "original_filename", ds.name) = {}
              /\ RowsOf(detailed_report.rows, "original_filename", ds.name) = {}
              /\ ~valid_store[ds.stem].exists
              /\ ~review_store[ds.stem].exists
              /\ ~candidates_store[ds.stem].exists

\* a run has ended that rejected a dataset with features for its spatial
\* reference and partitioned another
C11_Witness ==
    /\ run.pc = "done"
    /\ \E k, m \in 1..Len(run.exploded_files) :
          /\ run.exploded_files[k].crs = "other"
          /\ run.exploded_files[k].features # <<>>
          /\ run.exploded_files[k].name \in run.invalid_global_dir
          /\ run.exploded_files[m].name \in run.deleted
    /\ \E m \in 1..Len(summary_report.rows) : summary_report.rows[m].initial = "WRONG_EPSG"

\* C12: no fault of one dataset leaves run: run never ends by an exception,
\* and when it has ended every dataset without a fault and in WGS84 has been
\* partitioned (its summary row says PASSED_PRECHECK) and the detailed
\* report holds the rows of all partitioned datasets.
C12_DatasetFaultDoesNotStopTheBatch ==
    /\ run.pc # "raised"
    /\ run.pc = "done" =>
         /\ detailed_report.rows = run.all_detailed_rows
         /\ \A k \in 1..Len(run.datasets_to_process) :
               LET ds == run.datasets_to_process[k] IN
               (ds.fault = "none" /\ ds.crs = "WGS84") =>
                  \E m \in RowsOf(summary_report.rows, "name", ds.name) :
                      summary_report.rows[m].initial = "PASSED_PRECHECK"

\* C13: when run has ended, every dataset of the input directory has exactly
\* one row in the summary report.
C13_EveryDatasetHasOneSummaryRow ==
    run.pc = "done" =>
      \A k \in 1..Len(run.datasets_to_process) :
         Cardinality(RowsOf(summary_report.rows, "name",
                            run.datasets_to_process[k].name)) = 1

\* C14: when run has ended, a dataset in WGS84 that met no fault has at
\* least as many detailed rows as it has input features.
C14_EveryInputFeatureHasADetailRow ==
    run.pc = "done" =>
      \A k \in 1..Len(run.datasets_to_process) :
         LET ds == run.datasets_to_process[k] IN
         (ds.fault = "none" /\ ds.crs = "WGS84") =>
            Cardinality(RowsOf(detailed_report.rows, "original_filename", ds.name))
               >= Len(ds.features)

\* ------------------------------------------ claims: the conversion, again

\* C15: when a call has returned, every requested identifier whose feature
\* was in the candidate store of its dataset with a geometry that converts is
\* in the valid store and no longer in the candidate store, whatever
\* happened to the other requested identifiers, and converted_count is the
\* number of these identifiers.
C15_FailedIdDoesNotStopTheOthers ==
    \A r \in Threads :
        LET q == req[r]
            good(s) == {id \in Elems(q.qa_ids) :
                          \E f \in StoredAs(pre[r].candidates[s].features, id) :
                              f.geom.json = "ok"}
        IN  q.pc = "done" =>
              /\ \A s \in Stems : \A id \in good(s) :
                    /\ id \in Ids(valid_store[s].features)
                    /\ id \notin Ids(candidates_store[s].features)
              /\ q.converted_count = Cardinality(UNION {good(s) : s \in Stems})

\* a call has returned that converted a candidate of a dataset and reported
\* another candidate of the same dataset as failed
C15_Witness ==
    \E r \in Threads : \E s \in Stems :
        /\ req[r].pc = "done"
        /\ req[r].converted_count >= 1
        /\ \E id \in Elems(req[r].failed_ids) : id \in Ids(pre[r].candidates[s].features)
        /\ \E id \in Elems(req[r].qa_ids) :
              /\ id \in Ids(pre[r].candidates[s].features)
              /\ id \in Ids(valid_store[s].features)

\* C16: when a call has returned, a feature it moved to the valid store has
\* the identifier it had, an Area of exactly 4.0 if it had an Area attribute
\* and no Area attribute if it had none; only its geometry differs besides.
C16_ConvertedFeatureKeepsIdAndGetsArea4 ==
    \A r \in Threads : \A s \in Stems :
        LET q == req[r]
            was == pre[r].candidates[s].features
        IN  q.pc = "done" =>
              \A i \in 1..Len(was) :
                 (In(was[i].id, q.qa_ids) /\ was[i].id \in Ids(valid_store[s].features)) =>
                    \A f \in StoredAs(valid_store[s].features, was[i].id) :
                       /\ f.id = was[i].id
                       /\ was[i].Area # -1 => f.Area = 400
                       /\ was[i].Area = -1 => f.Area = -1
                       /\ f.geom.gtype = wkbPoint
                       /\ [f EXCEPT !.geom = was[i].geom, !.Area = was[i].Area] = was[i]

\* a call has returned that moved a feature with an Area attribute other than
\* 4.0 and a feature without one
C16_Witness ==
    \E r \in Threads : \E s, t \in Stems :
        /\ req[r].pc = "done"
        /\ \E f \in Elems(pre[r].candidates[s].features) :
              /\ f.Area \notin {-1, 400}
              /\ f.id \in Ids(valid_store[s].features)
        /\ \E f \in Elems(pre[r].candidates[t].features) :
              /\ f.Area = -1
              /\ f.id \in Ids(valid_store[t].features)

\* ----------------------------------------------- claims: pure functions

\* C17: for a missing or an empty geometry, validate_and_fix_geometry
\* answers (False, "Missing or empty geometry", None) whatever autofix and
\* simplify are, and the feature's row carries that reason with the default
\* action.
C17_MissingGeometryIsRejected ==
    \A i \in 1..Len(in_layer) :
        LET geom == in_layer[i].feature.geom
            row == part.detailed_rows[i]
        IN  (~geom.present \/ geom.empty) =>
              /\ \A fix, simp \in BOOLEAN :
                    LET v == ValidateAndFixGeometry(geom, fix, simp) IN
                    /\ ~v.is_valid
                    /\ v.reason = "Missing or empty geometry"
                    /\ v.action_taken = "None"
              /\ row.final_status = "Requires Review"
              /\ row.reason_notes = "Missing or empty geometry"
              /\ row.action_taken = "Segregated"

\* a feature without geometry and a feature with an empty one have been
\* classified with both options set
C17_Witness ==
    /\ autofix /\ simplify
    /\ \E i, j \in 1..Len(in_layer) :
          /\ ~in_layer[i].feature.geom.present
          /\ in_layer[j].feature.geom.present /\ in_layer[j].feature.geom.empty
          /\ Len(part.detailed_rows) >= j

\* a string with its capital letters made small
Folded(value) ==
    [i \in 1..Len(value) |->
        IF \E k \in 1..Len(UpperCase) : UpperCase[k] = value[i]
        THEN LowerCase[CHOOSE k \in 1..Len(UpperCase) : UpperCase[k] = value[i]]
        ELSE value[i]]

\* the ISO codes in small letters
FoldedCodes == {Folded(code) : code \in VALID_ISO2_CODES}

\* the country of a feature is one of the ISO codes, in any case
CountryOk(fields) ==
    /\ fields.ProducerCountry.kind = "str"
    /\ Folded(fields.ProducerCountry.s) \in FoldedCodes

\* C18: the note of a feature is its four statuses in the order
\* ProductionPlace, ProducerName, ProducerCountry, Area, joined by "; ";
\* that of ProducerCountry is "Not included" when the field is absent, "OK"
\* when its value is a string that is an ISO code but for case, and
\* "Invalid value: '<value>'" otherwise.
C18_ProducerCountryStatus ==
    \A i \in 1..Len(audit.layer) :
        LET fields == audit.layer[i]
            present(value) ==
                IF value.kind = "absent" THEN NoteNotIncluded ELSE <<"O", "K">>
            country ==
                IF fields.ProducerCountry.kind = "absent" THEN NoteNotIncluded
                ELSE IF CountryOk(fields) THEN <<"O", "K">>
                ELSE <<"I", "n", "v", "a", "l", "i", "d", " ", "v", "a", "l", "u", "e",
                       ":", " ", "'">> \o fields.ProducerCountry.s \o <<"'">>
            area ==
                IF fields.Area.kind = "absent" THEN NoteNotIncluded
                ELSE IF fields.Area.kind = "num" THEN <<"O", "K">>
                ELSE NoteInvalidDataType
        IN  audit.notes[i] =
               present(fields.ProductionPlace) \o <<";", " ">>
               \o present(fields.ProducerName) \o <<";", " ">>
               \o country \o <<";", " ">> \o area

\* a layer with the country "fr", which is OK, and the country "zz", which
\* is not
C18_Witness ==
    \E i, j \in 1..Len(audit.notes) :
        /\ audit.layer[i].ProducerCountry = StrValue(<<"f", "r">>)
        /\ Contains(<<"O", "K">>, audit.notes[i])
        /\ audit.layer[j].ProducerCountry = StrValue(<<"z", "z">>)
        /\ Contains(<<"'", "z", "z", "'">>, audit.notes[j])

\* the four optional fields of a feature are present and OK
AllFieldsOk(fields) ==
    /\ fields.ProductionPlace.kind # "absent"
    /\ fields.ProducerName.kind # "absent"
    /\ CountryOk(fields)
    /\ fields.Area.kind = "num"

\* a field of a feature has an Invalid status
SomeFieldInvalid(fields) ==
    \/ fields.ProducerCountry.kind # "absent" /\ ~CountryOk(fields)
    \/ fields.Area.kind \notin {"absent", "num"}

\* C19: the summary of a layer is "N/A" when it has no feature, "All
\* optional attributes valid" exactly when every feature has its four
\* fields present and OK, "Attribute issues found" when that is not so and a
\* field of a feature is Invalid, and "Some attributes not included"
\* otherwise; a note is the all-OK pattern exactly for a feature whose four
\* fields are present and OK.
C19_AttributeSummary ==
    /\ \A i \in 1..Len(audit.layer) :
          AllFieldsOk(audit.layer[i]) <=> audit.notes[i] = AllOkNote
    /\ audit.pc = "done" =>
         LET n == Len(audit.layer)
             all_ok == \A i \in 1..n : AllFieldsOk(audit.layer[i])
             invalid == \E i \in 1..n : SomeFieldInvalid(audit.layer[i])
         IN  /\ (audit.summary = "N/A") <=> (n = 0)
             /\ (audit.summary = "All optional attributes valid") <=> (n > 0 /\ all_ok)
             /\ (audit.summary = "Attribute issues found") <=> (n > 0 /\ ~all_ok /\ invalid)
             /\ (audit.summary = "Some attributes not included")
                    <=> (n > 0 /\ ~all_ok /\ ~invalid)

\* a layer with an all-OK feature and a feature with a field that is only
\* missing has been summarized
C19_Witness ==
    /\ audit.pc = "done"
    /\ audit.summary = "Some attributes not included"
    /\ \E i \in 1..Len(audit.notes) : audit.notes[i] = AllOkNote

\* ---------------------------------------------------- claims: identifiers

\* a string of one or more digits
IsDigits(s) == s # <<>> /\ \A i \in 1..Len(s) : \E d \in 1..Len(Digits) : s[i] = Digits[d]

\* <stem>_<index> or <stem>_<index>-p<part>
HasIdForm(id, stem) ==
    LET n == Len(stem)
        rest == SubSeq(id, n + 2, Len(id))
    IN  /\ Len(id) > n + 1
        /\ SubSeq(id, 1, n) = stem
        /\ id[n + 1] = "_"
        /\ \/ IsDigits(rest)
           \/ \E k \in 2..(Len(rest) - 2) :
                 /\ IsDigits(SubSeq(rest, 1, k - 1))
                 /\ rest[k] = "-" /\ rest[k + 1] = "p"
                 /\ IsDigits(SubSeq(rest, k + 2, Len(rest)))

\* C20: every feature of an exploded file, which is what the partitioner is
\* given, has an identifier <stem>_<index> or <stem>_<index>-p<part>, and no
\* two features of the file have the same identifier.
C20_IdentifiersAreWellFormedAndUnique ==
    \A k \in 1..Len(run.exploded_files) :
        LET ds == run.exploded_files[k] IN
        /\ \A i \in 1..Len(ds.features) : HasIdForm(ds.features[i].id, ds.stem)
        /\ \A i, j \in 1..Len(ds.features) :
              i # j => ds.features[i].id # ds.features[j].id

\* the parts of a multi-polygon and a polygon of one dataset have been
\* partitioned
C20_Witness ==
    \E k \in Validated :
        LET ds == run.exploded_files[k] IN
        /\ ds.name \in run.deleted
        /\ Len(ds.features) >= 3
        /\ \E i, j \in 1..Len(ds.features) :
              /\ Contains(<<"-", "p", "1">>, ds.features[i].id)
              /\ ~Contains(<<"-", "p">>, ds.features[j].id)

\* ---------------------------------------------------- claims: the classifier

\* the call of the classifier has returned
Classified == call.pc \in {"validated", "bucketed"}

\* C21: every geometry that validate_and_fix_geometry accepts, whatever
\* autofix and simplify are and also when it is accepted as Auto-fixed, has
\* all its vertices inside [-180,180] x [-90,90].
C21_AcceptedGeometryIsInBounds ==
    (Classified /\ call.verdict.is_valid) => call.verdict.local_geom.verts

\* C22: validate_and_fix_geometry never accepts a single polygon with
\* interior rings, also when the polygon is the result of the repair of the
\* validity step.
C22_AcceptedPolygonHasNoHoles ==
    (/\ Classified
     /\ call.verdict.is_valid
     /\ BaseType(call.verdict.local_geom.gtype) = wkbPolygon)
        => call.verdict.local_geom.rings <= 1

\* C23: a non-empty geometry that is not a line and is not valid is rejected
\* with "Invalid geometry" when autofix is off; when autofix is on it is
\* accepted as Auto-fixed exactly when Buffer(0) gives a non-empty valid
\* geometry and rejected with "Invalid geometry (unfixable)" otherwise.  A
\* rejection has no action, Auto-fixed needs autofix, and Simplified needs
\* simplify and a single polygon.
C23_InvalidGeometryVerdicts ==
    Classified =>
        LET geom == call.geom
            v == call.verdict
        IN  /\ (/\ ~MissingOrEmpty(geom)
                /\ BaseType(geom.gtype) \notin {wkbLineString, wkbMultiLineString}
                /\ ~geom.valid)
                  => IF ~autofix
                     THEN ~v.is_valid /\ v.reason = "Invalid geometry"
                     ELSE IF geom.buf = "valid"
                     THEN v.is_valid /\ v.reason = "Valid" /\ v.action_taken = "Auto-fixed"
                     ELSE ~v.is_valid /\ v.reason = "Invalid geometry (unfixable)"
            /\ ~v.is_valid => v.action_taken = "None"
            /\ v.action_taken = "Auto-fixed" => autofix
            /\ v.action_taken = "Simplified" =>
                  simplify /\ BaseType(geom.gtype) = wkbPolygon

\* an invalid polygon was repaired and accepted as Auto-fixed
C23_Witness ==
    /\ Classified
    /\ autofix
    /\ ~call.geom.valid /\ call.geom.buf = "valid"
    /\ BaseType(call.geom.gtype) = wkbPolygon
    /\ call.verdict.is_valid /\ call.verdict.action_taken = "Auto-fixed"

\* the geometry type a type code stands for, without its Z, M or 2.5D flag
\* (ogr's wkbFlatten)
Flatten(code) ==
    (IF code < 0 THEN code + 2147483647 + 1 ELSE code) % 1000

\* C27: the candidacy test takes a geometry for a polygon exactly when its
\* type code is that of a polygon, with whatever dimensionality flag (3,
\* 0x80000003, 2003, 3003): a small polygon of any of these codes is
\* a candidate, and no point, line or multi-geometry is.
C27_MaskedTypeIsThePolygonType ==
    call.pc = "bucketed" =>
        (call.candidate <=>
            /\ identify_candidates
            /\ Flatten(call.geom.gtype) = wkbPolygon
            /\ GetAreaInHectares(call.geom).ha < MIN_AREA_HA_FOR_POLYGON)

\* ------------------------------------------- claims: identifiers and stems

\* C24: the stem that the conversion derives from an identifier made by the
\* ID injection and the explode step is the stem of the identifier's
\* dataset, also when the stem contains "_" or "-p".
C24_DerivedStemIsTheDatasetStem ==
    call.pc = "derived" => call.original_stem = call.stem

\* ------------------------------------------------------ claims: the area

\* get_area_in_hectares has been called and is over
AreaCalled == call.pc \in {"measured", "raised"}

\* the centroid of the geometry is inside [-180,180] x [-90,90]
CentroidInBounds(geom) ==
    /\ geom.centroid # "none"
    /\ -180 <= geom.lon /\ geom.lon <= 180
    /\ -90 <= geom.lat /\ geom.lat <= 90

\* C25: get_area_in_hectares never raises and leaves the caller's geometry
\* as it was; it answers None when the geometry has no centroid, when the
\* centroid is outside [-180,180] x [-90,90] and when the UTM transform
\* fails.
C25_AreaNeverRaisesNorMutates ==
    AreaCalled =>
        /\ ~call.result.raised
        /\ call.result.geom_after = call.geom
        /\ (/\ ~MissingOrEmpty(call.geom)
            /\ ~(CentroidInBounds(call.geom) /\ call.geom.transform))
              => ~call.result.ok

\* C26: for a centroid with a longitude in [-180, 180], both ends included,
\* the UTM zone that get_area_in_hectares derives is in 1..60, and the
\* northern hemisphere is chosen exactly when the latitude is >= 0.
C26_UtmZoneIsInRange ==
    (/\ AreaCalled
     /\ ~MissingOrEmpty(call.geom)
     /\ CentroidInBounds(call.geom))
        => /\ call.result.utm_zone \in 1..60
           /\ call.result.north <=> (call.geom.lat >= 0)

\* ------------------------------------------ claims: two datasets in a run

\* the identifiers of the features of a dataset file
FileIds(file) == {file.features[k].id : k \in 1..Len(file.features)}

\* C28: two input datasets of a run never share traceability identifiers,
\* in the traced files, in the exploded files or in the detailed rows, also
\* when they have the same stem and differ in suffix (a.shp, a.geojson).
C28_DatasetsShareNoIdentifier ==
    /\ \A i, j \in 1..Len(run.traced_files) :
          i # j => FileIds(run.traced_files[i]) \cap FileIds(run.traced_files[j]) = {}
    /\ \A i, j \in 1..Len(run.exploded_files) :
          i # j => FileIds(run.exploded_files[i]) \cap FileIds(run.exploded_files[j]) = {}
    /\ \A i, j \in 1..Len(run.all_detailed_rows) :
          i # j => run.all_detailed_rows[i].qa_assistant_id
                     # run.all_detailed_rows[j].qa_assistant_id

\* ----------------------------------------------------- claims: the task

\* C29: the progress values that the task writes to the registry never
\* decrease, from 0 up to 100, and the registry shows progress 100 only
\* together with finished = true: on the normal path, on the error path and
\* when the input directory has no dataset file.
C29_ProgressIsMonotonic ==
    /\ \A i, j \in 1..Len(worker.progress_log) :
          i < j => worker.progress_log[i] <= worker.progress_log[j]
    /\ (SessionId \in DOMAIN tasks /\ tasks[SessionId].progress = 100)
          => tasks[SessionId].finished

\* C30: under every interleaving of the thread of the task with /cleanup
\* and /status, the thread ends without an exception that nothing handles,
\* and once a cleanup of the session has answered, the session has no
\* registry entry and no status file.
C30_CleanupIsFinal ==
    /\ worker.pc # "crashed"
    /\ handler.cleaned =>
          /\ SessionId \notin DOMAIN tasks
          /\ SessionId \in DOMAIN upload_folder
                => ~upload_folder[SessionId].status_file.exists

====
